---- MODULE Spec2Model ----
(***************************************************************************)
(* Model of the invoice generator: column resolution, WIP-entry           *)
(* extraction, invoice aggregation and the write-back of the "Billed"     *)
(* status with its highlight colour (src/src/sheets_reader_enhanced.py,   *)
(* src/src/invoice_generator.py, src/fix-colors.py).                      *)
(*                                                                         *)
(* A Python str is a sequence of one-character strings, so that strip(),  *)
(* lower(), upper(), float() and chr() are computed character by          *)
(* character, as the interpreter computes them.                           *)
(***************************************************************************)
EXTENDS Integers, Sequences, FiniteSets, TLC

VARIABLES
    spreadsheet,    \* the remote spreadsheet: title -> [sheetId, values, bg]
    reference_row,  \* background colour the API reports for Sheet1!A932:G932
    config,         \* InvoiceGenerator.config["invoice"]
    wip_entries,    \* the entry list held by the caller
    invoice_data,   \* the last InvoiceRecord built by generate_invoice
    call            \* the last completed operation: arguments, result, remote log

vars == <<spreadsheet, reference_row, config, wip_entries, invoice_data, call>>

-----------------------------------------------------------------------------
(* Bounds of the model.                                                    *)

MaxHeaders == 3      \* header cells of a resolver input
MaxRows == 2         \* data rows of a worksheet
MaxDefects == 2      \* defects of a sheet: cells that differ from a well-formed row
MaxEntries == 3      \* entries handed to generate_invoice
MaxHours == 3        \* largest hours value of an aggregated entry
MaxRuns == 2         \* write-back runs (updater, colour fix) of one behaviour

-----------------------------------------------------------------------------
(* Python str operations.                                                  *)

UpperChars ==
    << "A","B","C","D","E","F","G","H","I","J","K","L","M",
       "N","O","P","Q","R","S","T","U","V","W","X","Y","Z" >>

LowerChars ==
    << "a","b","c","d","e","f","g","h","i","j","k","l","m",
       "n","o","p","q","r","s","t","u","v","w","x","y","z" >>

Whitespace == {" ", "\t"}

Digits == <<"0","1","2","3","4","5","6","7","8","9">>

None == <<"N","o","n","e">>

Min(S) == CHOOSE x \in S : \A y \in S : x <= y

Max(S) == CHOOSE x \in S : \A y \in S : x >= y

\* position of character c in chars, 0 when absent
CharIndex(c, chars) ==
    IF \E i \in 1..Len(chars) : chars[i] = c
    THEN CHOOSE i \in 1..Len(chars) : chars[i] = c
    ELSE 0

\* the printable ASCII characters, codes 32..126, in code order ("GRAVE" stands
\* for the grave accent, code 96, which a TLA+ string cannot hold)
Ascii ==
    <<
       " ", "!", "\"", "#", "$", "%", "&", "'", "(", ")", "*", "+", ",", "-", ".", "/",
       "0", "1", "2", "3", "4", "5", "6", "7", "8", "9", ":", ";", "<", "=", ">", "?",
       "@", "A", "B", "C", "D", "E", "F", "G", "H", "I", "J", "K", "L", "M", "N", "O",
       "P", "Q", "R", "S", "T", "U", "V", "W", "X", "Y", "Z", "[", "\\", "]", "^", "_",
       "GRAVE", "a", "b", "c", "d", "e", "f", "g", "h", "i", "j", "k", "l", "m", "n", "o",
       "p", "q", "r", "s", "t", "u", "v", "w", "x", "y", "z", "{", "|", "}", "~" >>

Ord == [c \in {Ascii[i] : i \in 1..Len(Ascii)} |-> CharIndex(c, Ascii) + 31]

\* ord(c)
ord(c) == Ord[c]

\* a < b for two str: code point order, a proper prefix first
RECURSIVE str_less(_, _)
str_less(a, b) ==
    IF b = << >> THEN FALSE
    ELSE IF a = << >> THEN TRUE
    ELSE IF a[1] # b[1] THEN ord(a[1]) < ord(b[1])
    ELSE str_less(Tail(a), Tail(b))

ToLower == [c \in {UpperChars[i] : i \in 1..26} |-> LowerChars[CharIndex(c, UpperChars)]]

ToUpper == [c \in {LowerChars[i] : i \in 1..26} |-> UpperChars[CharIndex(c, LowerChars)]]

lower(s) == [i \in 1..Len(s) |-> IF s[i] \in DOMAIN ToLower THEN ToLower[s[i]] ELSE s[i]]

upper(s) == [i \in 1..Len(s) |-> IF s[i] \in DOMAIN ToUpper THEN ToUpper[s[i]] ELSE s[i]]

strip(s) ==
    LET keep == {i \in 1..Len(s) : s[i] \notin Whitespace}
    IN  IF keep = {} THEN << >> ELSE SubSeq(s, Min(keep), Max(keep))

\* list.index(x): 0-based position of the first occurrence
list_index(xs, x) ==
    (CHOOSE i \in 1..Len(xs) : xs[i] = x /\ \A j \in 1..(i-1) : xs[j] # x) - 1

list_contains(xs, x) == \E i \in 1..Len(xs) : xs[i] = x

-----------------------------------------------------------------------------
(* SheetsReaderEnhanced._find_column_index                                 *)

\* a faulty variant: headers are trimmed but compared in their own case
headers_lower_case_sensitive(headers) == [i \in 1..Len(headers) |-> strip(headers[i])]

\* [h.lower().strip() for h in headers]
headers_lower(headers) == [i \in 1..Len(headers) |-> strip(lower(headers[i]))]

\* a faulty variant: resolution in header order, the first header that matches any alias
find_column_index_header_order(headers, possible_names) ==
    LET hl == headers_lower(headers)
        hit == {i \in 1..Len(hl) :
                   \E k \in 1..Len(possible_names) :
                       hl[i] = strip(lower(possible_names[k]))}
    IN  IF hit = {} THEN Len(headers) ELSE Min(hit) - 1

RECURSIVE find_from(_, _, _)
find_from(hl, possible_names, k) ==
    IF k > Len(possible_names)
    THEN Len(hl)
    ELSE LET name_lower == strip(lower(possible_names[k]))
         IN  IF list_contains(hl, name_lower)
             THEN list_index(hl, name_lower)
             ELSE find_from(hl, possible_names, k + 1)

_find_column_index(headers, possible_names) ==
    find_from(headers_lower(headers), possible_names, 1)

-----------------------------------------------------------------------------
(* The remote spreadsheet.  A worksheet holds its cell values (row 1 is   *)
(* the header row) and the background colour of every cell of its grid.   *)

WorksheetNames == {"Sheet1", "Sheet2"}

\* a grid has at least the columns A..G
GridWidth(values) == Max({7} \cup {Len(values[r]) : r \in 1..Len(values)})

\* the rows of every grid of the model
GridRows == MaxRows + 1

NoBackground(values) ==
    [r \in 1..GridRows |-> [c \in 1..GridWidth(values) |-> "none"]]

Worksheet(id, values) ==
    [sheetId |-> id, values |-> values, bg |-> NoBackground(values)]

\* the second worksheet of the spreadsheet is the same in every run
Sheet2Values ==
    << << <<"D","a","t","e">>, <<"H","o","u","r","s">>, <<"P","a","i","d">> >>,
       << <<"6","/","4","/","2","5">>, <<"2">>, <<"W","I","P">> >> >>

Spreadsheet(values) ==
    [t \in WorksheetNames |->
        IF t = "Sheet1" THEN Worksheet(0, values) ELSE Worksheet(1, Sheet2Values)]

\* worksheet.get_all_values()
get_all_values(title) == spreadsheet[title].values

IdleConfig == [hourly_rate |-> 0, discount |-> 0]

-----------------------------------------------------------------------------
(* float(): the parse of an hours cell.  A finite value is num / 10^scale *)
(* with no trailing zero in the fraction.  Exponents and digit-group      *)
(* underscores are not part of the cells of this model.                   *)

IsDigit(c) == CharIndex(c, Digits) > 0

RECURSIVE DigitsValue(_)
DigitsValue(ds) ==
    IF ds = << >> THEN 0
    ELSE 10 * DigitsValue(SubSeq(ds, 1, Len(ds) - 1)) + (CharIndex(ds[Len(ds)], Digits) - 1)

RECURSIVE Normalise(_, _)
Normalise(num, scale) ==
    IF scale > 0 /\ num % 10 = 0 THEN Normalise(num \div 10, scale - 1)
    ELSE [kind |-> "finite", num |-> num, scale |-> scale]

ValueError == [kind |-> "ValueError"]

float(str) ==
    LET s == strip(str)
        signed == s # << >> /\ s[1] \in {"+", "-"}
        neg == signed /\ s[1] = "-"
        body == IF signed THEN SubSeq(s, 2, Len(s)) ELSE s
        word == lower(body)
        dots == {i \in 1..Len(body) : body[i] = "."}
        digs == {i \in 1..Len(body) : IsDigit(body[i])}
        plain == [i \in 1..Cardinality(digs) |->
                     body[CHOOSE j \in digs : Cardinality({k \in digs : k < j}) = i - 1]]
        scale == IF dots = {} THEN 0 ELSE Len(body) - Min(dots)
        mant == DigitsValue(plain)
    IN  IF word = <<"n","a","n">> THEN [kind |-> "nan"]
        ELSE IF word \in {<<"i","n","f">>, <<"i","n","f","i","n","i","t","y">>} THEN [kind |-> "inf", neg |-> neg]
        ELSE IF /\ digs # {}
                /\ Cardinality(dots) <= 1
                /\ digs \cup dots = 1..Len(body)
             THEN Normalise(IF neg THEN 0 - mant ELSE mant, scale)
             ELSE ValueError

\* hours <= 0, as the comparison of Python floats decides it
le_zero(hours) ==
    CASE hours.kind = "finite" -> hours.num <= 0
      [] hours.kind = "inf" -> hours.neg
      [] OTHER -> FALSE

\* hours > 0
gt_zero(hours) ==
    CASE hours.kind = "finite" -> hours.num > 0
      [] hours.kind = "inf" -> ~hours.neg
      [] OTHER -> FALSE

-----------------------------------------------------------------------------
(* SheetsReaderEnhanced.get_wip_entries                                    *)

\* row[col].strip() if col < len(row) else default   (col is 0-based)
cell_or(row, col, default) ==
    IF col < Len(row) THEN strip(row[col + 1]) ELSE default

column_map(headers) ==
    [date_col |-> _find_column_index(headers, << <<"d","a","t","e">> >>),
     hours_col |-> _find_column_index(headers, << <<"h","o","u","r","s">> >>),
     category_col |-> _find_column_index(headers, << <<"c","a","t","e","g","o","r","y">> >>),
     task_col |-> _find_column_index(headers, << <<"t","a","s","k">>, <<"w","o","r","k">>, <<"t","a","s","k","/","w","o","r","k">> >>),
     persons_col |-> _find_column_index(headers, << <<"p","e","r","s","o","n","s">> >>),
     invoice_col |-> _find_column_index(headers, << <<"i","n","v","o","i","c","e">> >>),
     paid_col |-> _find_column_index(headers, << <<"p","a","i","d">>, <<"s","t","a","t","u","s">> >>)]

max_col(cols) ==
    Max({cols.date_col, cols.hours_col, cols.category_col, cols.task_col,
         cols.persons_col, cols.invoice_col, cols.paid_col})

\* a faulty variant: only rows strictly shorter than the largest index are skipped
incomplete_row_lt(row, cols) == Len(row) < max_col(cols)

\* if len(row) <= max(...): continue
incomplete_row(row, cols) == Len(row) <= max_col(cols)

paid_status(row, cols) ==
    IF cols.paid_col < Len(row) THEN upper(strip(row[cols.paid_col + 1])) ELSE << >>

\* a faulty variant: every row that is not marked "Billed" is kept
is_wip_not_billed(row, cols) == paid_status(row, cols) # <<"B","I","L","L","E","D">>

is_wip(row, cols) == paid_status(row, cols) = <<"W","I","P">>

\* if hours <= 0 or not date or not description: continue
skip_entry(hours, date, description) ==
    le_zero(hours) \/ date = << >> \/ description = << >>

\* a faulty variant: the row number is the 0-based index of the row among the data rows
wip_entry_zero_based(row, cols, row_idx) ==
    [date |-> cell_or(row, cols.date_col, << >>),
     hours |-> float(cell_or(row, cols.hours_col, <<"0">>)),
     category |-> cell_or(row, cols.category_col, <<"E","n","h","a","n","c","e","m","e","n","t">>),
     description |-> cell_or(row, cols.task_col, << >>),
     persons |-> cell_or(row, cols.persons_col, << >>),
     invoice |-> cell_or(row, cols.invoice_col, << >>),
     row_number |-> row_idx - 2]

wip_entry(row, cols, row_idx) ==
    [date |-> cell_or(row, cols.date_col, << >>),
     hours |-> float(cell_or(row, cols.hours_col, <<"0">>)),
     category |-> cell_or(row, cols.category_col, <<"E","n","h","a","n","c","e","m","e","n","t">>),
     description |-> cell_or(row, cols.task_col, << >>),
     persons |-> cell_or(row, cols.persons_col, << >>),
     invoice |-> cell_or(row, cols.invoice_col, << >>),
     row_number |-> row_idx]

\* whether the loop body appends an entry for this row
emits(row, cols) ==
    /\ ~incomplete_row(row, cols)
    /\ is_wip(row, cols)
    /\ float(cell_or(row, cols.hours_col, <<"0">>)) # ValueError
    /\ ~skip_entry(float(cell_or(row, cols.hours_col, <<"0">>)),
                   cell_or(row, cols.date_col, << >>),
                   cell_or(row, cols.task_col, << >>))

\* the inner try: float(hours_str) raises ValueError
invalid_hours(row, cols) ==
    /\ ~incomplete_row(row, cols)
    /\ is_wip(row, cols)
    /\ float(cell_or(row, cols.hours_col, <<"0">>)) = ValueError

\* the rows for which the "Invalid hours value" warning is printed
RECURSIVE invalid_hours_warnings(_, _, _)
invalid_hours_warnings(all_values, cols, row_idx) ==
    IF row_idx > Len(all_values) THEN {}
    ELSE (IF invalid_hours(all_values[row_idx], cols) THEN {row_idx} ELSE {})
             \cup invalid_hours_warnings(all_values, cols, row_idx + 1)

\* the index row[col] is evaluated with in `row[col].strip() if col < len(row) else ...`
index_read(row, col) == IF col < Len(row) THEN {col} ELSE {}

\* the 0-based indexes at which the body of the loop subscripts the row
row_reads(row, cols) ==
    IF incomplete_row(row, cols) THEN {}
    ELSE index_read(row, cols.paid_col) \cup
         (IF is_wip(row, cols)
          THEN UNION {index_read(row, col) :
                         col \in {cols.date_col, cols.hours_col, cols.category_col,
                                  cols.task_col, cols.persons_col, cols.invoice_col}}
          ELSE {})

\* every subscript of a data row during the scan: <<row number, 0-based index>>
cell_reads(all_values) ==
    IF all_values = << >> THEN {}
    ELSE UNION {{<<row_idx, col>> : col \in row_reads(all_values[row_idx], column_map(all_values[1]))} :
                   row_idx \in 2..Len(all_values)}

\* the exception the body of the loop raises for the row
row_exception(row, cols) == IF invalid_hours(row, cols) THEN "ValueError" ELSE "none"

\* a faulty variant: no handler inside the loop
caught_in_row_never(exception) == FALSE

\* except ValueError: ... continue, and except Exception: ... continue
caught_in_row(exception) == exception \in {"ValueError", "Exception"}

\* an exception leaves the loop
scan_raises(all_values) ==
    /\ all_values # << >>
    /\ \E row_idx \in 2..Len(all_values) :
           LET exception == row_exception(all_values[row_idx], column_map(all_values[1]))
           IN  exception # "none" /\ ~caught_in_row(exception)

\* for row_idx, row in enumerate(all_values[1:], start=2)
RECURSIVE scan_rows(_, _, _, _)
scan_rows(all_values, cols, row_idx, acc) ==
    IF row_idx > Len(all_values) THEN acc
    ELSE scan_rows(all_values, cols, row_idx + 1,
                   IF emits(all_values[row_idx], cols)
                   THEN Append(acc, wip_entry(all_values[row_idx], cols, row_idx))
                   ELSE acc)

get_wip_entries(all_values) ==
    IF all_values = << >> THEN << >>
    ELSE scan_rows(all_values, column_map(all_values[1]), 2, << >>)

-----------------------------------------------------------------------------
(* Specification of the column resolver: every header row of at most      *)
(* MaxHeaders cells over HeaderCells, resolved against the alias lists    *)
(* the callers pass.                                                       *)

HeaderCells ==
    { <<"P","a","i","d">>, <<" ","S","T","A","T","U","S"," ">>, <<"w","o","r","k">>, <<"T","a","s","k">>, <<>> }

AliasLists ==
    { << <<"p","a","i","d">>, <<"s","t","a","t","u","s">> >>,
      << <<"t","a","s","k">>, <<"w","o","r","k">>, <<"t","a","s","k","/","w","o","r","k">> >>,
      << <<"p","a","i","d">> >>,
      << <<" ","S","t","a","t","u","s">>, <<"P","A","I","D">> >> }

SeqsUpTo(S, n) == UNION {[1..k -> S] : k \in 0..n}

InitResolve ==
    /\ \E headers \in SeqsUpTo(HeaderCells, MaxHeaders) :
           spreadsheet = Spreadsheet(<< headers >>)
    /\ reference_row = "absent"
    /\ config = IdleConfig
    /\ wip_entries = << >>
    /\ invoice_data = None
    /\ call = [op |-> "none"]

FindColumnIndex ==
    \E possible_names \in AliasLists :
        LET headers == get_all_values("Sheet1")[1]
        IN  /\ call' = [op |-> "_find_column_index",
                        headers |-> headers,
                        possible_names |-> possible_names,
                        ret |-> _find_column_index(headers, possible_names)]
            /\ UNCHANGED <<spreadsheet, reference_row, config, wip_entries, invoice_data>>

NextResolve == FindColumnIndex

SpecResolve == InitResolve /\ [][NextResolve]_vars

\* the alias and the header agree after trimming and lowercasing both
Matches(header, alias) == strip(lower(header)) = strip(lower(alias))

\* C10: _find_column_index returns, for the earliest alias of the list that
\* matches any header (trimmed, lowercased), the 0-based index of the first
\* header matching that alias, whatever the other aliases match; and
\* len(headers) when no alias matches any header.
C10_AliasPriority ==
    call.op = "_find_column_index" =>
        LET hs == call.headers
            ns == call.possible_names
            hit == {k \in 1..Len(ns) : \E i \in 1..Len(hs) : Matches(hs[i], ns[k])}
        IN  IF hit = {}
            THEN call.ret = Len(hs)
            ELSE /\ call.ret + 1 \in 1..Len(hs)
                 /\ Matches(hs[call.ret + 1], ns[Min(hit)])
                 /\ \A j \in 1..call.ret : ~Matches(hs[j], ns[Min(hit)])

\* a later alias matches an earlier header, and the earlier alias still wins
C10_Witness ==
    /\ call.op = "_find_column_index"
    /\ call.possible_names = << <<"p","a","i","d">>, <<"s","t","a","t","u","s">> >>
    /\ call.headers = << <<" ","S","T","A","T","U","S"," ">>, <<"P","a","i","d">> >>
    /\ call.ret = 1

-----------------------------------------------------------------------------
(* Specification of the resolver under rearrangement: a header row is     *)
(* resolved, then its columns are permuted, its cells and the aliases are *)
(* rewritten in another case or padded with blanks, and it is resolved    *)
(* again.                                                                  *)

\* header cells, two of which differ only in case and surrounding blanks
RearrangeCells == HeaderCells \cup { <<"p","a","i","d"," ">> }

Rewritings == {"same", "upper", "lower", "padded"}

\* the text in another case or with surrounding blanks
Rewrite(s, how) ==
    CASE how = "upper" -> upper(s)
      [] how = "lower" -> lower(s)
      [] how = "padded" -> << " " >> \o s \o << " " >>
      [] OTHER -> s

\* the bijections of 1..n
Perms(n) == {f \in [1..n -> 1..n] : \A i, j \in 1..n : f[i] = f[j] => i = j}

InitRearrange ==
    /\ \E headers \in SeqsUpTo(RearrangeCells, MaxHeaders) :
           spreadsheet = Spreadsheet(<< headers >>)
    /\ reference_row = "absent"
    /\ config = IdleConfig
    /\ wip_entries = << >>
    /\ invoice_data = None
    /\ call = [op |-> "none"]

\* _find_column_index on the header row of the sheet
ResolveHeaders ==
    /\ call.op = "none"
    /\ \E possible_names \in AliasLists :
           LET headers == get_all_values("Sheet1")[1]
           IN  call' = [op |-> "_find_column_index",
                        headers |-> headers,
                        possible_names |-> possible_names,
                        ret |-> _find_column_index(headers, possible_names)]
    /\ UNCHANGED <<spreadsheet, reference_row, config, wip_entries, invoice_data>>

\* _find_column_index on the rearranged header row: column i of the new row is
\* column perm[i] of the old one
ResolveRearranged ==
    /\ call.op = "_find_column_index"
    /\ \E perm \in Perms(Len(call.headers)), how_headers \in Rewritings, how_names \in Rewritings :
           LET headers == [i \in 1..Len(call.headers) |-> Rewrite(call.headers[perm[i]], how_headers)]
               possible_names == [k \in 1..Len(call.possible_names) |->
                                     Rewrite(call.possible_names[k], how_names)]
           IN  call' = [op |-> "rearranged",
                        before |-> call,
                        perm |-> perm,
                        headers |-> headers,
                        possible_names |-> possible_names,
                        ret |-> _find_column_index(headers, possible_names)]
    /\ UNCHANGED <<spreadsheet, reference_row, config, wip_entries, invoice_data>>

NextRearrange ==
    \/ ResolveHeaders
    \/ ResolveRearranged

SpecRearrange == InitRearrange /\ [][NextRearrange]_vars

\* the rearranged row is resolved to the column the original row was resolved to
SameColumn ==
    IF call.before.ret = Len(call.before.headers)
    THEN call.ret = Len(call.headers)
    ELSE /\ call.ret < Len(call.headers)
         /\ call.perm[call.ret + 1] = call.before.ret + 1

\* the header cells that agree with the selected one after trimming and lowercasing
SelectedTwins ==
    {i \in 1..Len(call.before.headers) :
        Matches(call.before.headers[i], call.before.headers[call.before.ret + 1])}

\* C20 as stated: for every permutation of the header row and every rewriting
\* of headers and aliases in case and surrounding blanks, _find_column_index
\* selects the same header: the index follows the header to its new position.
C20_AsStated == call.op = "rearranged" => SameColumn

\* C20 (amended): under every permutation and every rewriting in case and
\* surrounding blanks, "not found" stays "not found" and the selected header
\* has the same trimmed lowercase text as before; the index follows the header
\* to its new position when no other header cell has that text.
C20_InvariantForDistinctHeaders ==
    call.op = "rearranged" =>
        IF call.before.ret = Len(call.before.headers)
        THEN call.ret = Len(call.headers)
        ELSE /\ call.ret < Len(call.headers)
             /\ Matches(call.headers[call.ret + 1], call.before.headers[call.before.ret + 1])
             /\ Cardinality(SelectedTwins) = 1 => SameColumn

\* the status column moves from third to first place, headers in upper case,
\* aliases padded, and the index follows it
C20_Witness ==
    /\ call.op = "rearranged"
    /\ call.before.headers = << <<"T","a","s","k">>, << >>, <<"P","a","i","d">> >>
    /\ call.before.possible_names = << <<"p","a","i","d">>, <<"s","t","a","t","u","s">> >>
    /\ call.before.ret = 2
    /\ call.headers = << <<"P","A","I","D">>, <<"T","A","S","K">>, << >> >>
    /\ call.possible_names[1] = <<" ","p","a","i","d"," ">>
    /\ call.ret = 0

-----------------------------------------------------------------------------
(* Specification of the entry extractor.  Sheet1 has one of the header    *)
(* layouts below and at most MaxRows data rows: well-formed WIP rows with *)
(* at most MaxDefects defects in the sheet, a defect being a cell         *)
(* replaced by one of the alternatives of its field or a row cut short by *)
(* one cell.                                                               *)

\* the layout of the tracked sheet (check-recent-entries.py reads it by position)
CanonicalLayout ==
    << [field |-> "date", header |-> <<"D","a","t","e">>],
       [field |-> "hours", header |-> <<"H","o","u","r","s">>],
       [field |-> "category", header |-> <<"C","a","t","e","g","o","r","y">>],
       [field |-> "task", header |-> <<"T","a","s","k">>],
       [field |-> "persons", header |-> <<"P","e","r","s","o","n","s">>],
       [field |-> "invoice", header |-> <<"I","n","v","o","i","c","e">>],
       [field |-> "status", header |-> <<"P","a","i","d">>] >>

\* other order, other aliases, other case, surrounding blanks
AliasLayout ==
    << [field |-> "status", header |-> <<" ","s","t","a","t","u","s"," ">>],
       [field |-> "invoice", header |-> <<"I","N","V","O","I","C","E">>],
       [field |-> "task", header |-> <<"W","o","r","k">>],
       [field |-> "hours", header |-> <<"h","o","u","r","s">>],
       [field |-> "date", header |-> <<"D","A","T","E">>],
       [field |-> "persons", header |-> <<"P","e","r","s","o","n","s">>],
       [field |-> "category", header |-> <<"c","a","t","e","g","o","r","y"," ">>] >>

\* no category column
NoCategoryLayout ==
    << [field |-> "date", header |-> <<"D","a","t","e">>],
       [field |-> "hours", header |-> <<"H","o","u","r","s">>],
       [field |-> "task", header |-> <<"T","a","s","k">>],
       [field |-> "persons", header |-> <<"P","e","r","s","o","n","s">>],
       [field |-> "invoice", header |-> <<"I","n","v","o","i","c","e">>],
       [field |-> "status", header |-> <<"P","a","i","d">>] >>

ExtractLayouts == {CanonicalLayout, AliasLayout, NoCategoryLayout}

HeaderRow(layout) == [i \in 1..Len(layout) |-> layout[i].header]

GoodCell(field) ==
    CASE field = "date" -> <<"6","/","4","/","2","5">>
      [] field = "hours" -> <<"2">>
      [] field = "category" -> <<"B","u","g">>
      [] field = "task" -> <<"f","i","x">>
      [] field = "persons" -> <<"B","K">>
      [] field = "invoice" -> <<"N","E","S","0","1","-","5","5","4","1">>
      [] field = "status" -> <<"W","I","P">>
      [] OTHER -> << >>

Alternatives(field) ==
    CASE field = "date" -> { <<>> }
      [] field = "hours" -> { <<"0">>, <<"a","b","c">>, <<"n","a","n">>, <<"-","1">>, <<" ","1",".","5","0">> }
      [] field = "task" -> { <<" ">> }
      [] field = "status" -> { <<" ","w","i","p"," ">>, <<"B","i","l","l","e","d">>, <<"P","a","i","d">> }
      [] OTHER -> {}

Fields == {"date", "hours", "category", "task", "persons", "invoice", "status", "other"}

\* a defect of a sheet: <<row, column, new cell>>; column 0 cuts the row short
Defects(layout, values, alt, cuts) ==
    UNION {(IF cuts THEN {<<r, 0, << >> >>} ELSE {}) \cup
           UNION {{<<r, c, v>> : v \in alt[layout[c].field]} :
                     c \in 1..Len(layout)} : r \in 2..Len(values)}

ApplyDefect(values, d) ==
    IF d[2] = 0
    THEN [values EXCEPT ![d[1]] = SubSeq(@, 1, Len(@) - 1)]
    ELSE IF d[2] <= Len(values[d[1]])
         THEN [values EXCEPT ![d[1]][d[2]] = d[3]]
         ELSE values

RECURSIVE WithDefects(_, _, _)
WithDefects(values, defects, k) ==
    IF k = 0 THEN {values}
    ELSE LET fewer == WithDefects(values, defects, k - 1)
         IN  fewer \cup {ApplyDefect(s, d) : s \in fewer, d \in defects}

\* the header row of the layout and n well-formed WIP rows
GoodSheet(layout, n) ==
    << HeaderRow(layout) >> \o
        [r \in 1..n |-> [c \in 1..Len(layout) |-> GoodCell(layout[c].field)]]

\* a data row of the layout with the given cells replaced: <<column, new cell>>
RowWith(layout, D) ==
    [c \in 1..Len(layout) |->
        IF \E d \in D : d[1] = c
        THEN (CHOOSE d \in D : d[1] = c)[2]
        ELSE GoodCell(layout[c].field)]

Sheets(layouts) ==
    UNION {WithDefects(GoodSheet(layout, n),
                       Defects(layout, GoodSheet(layout, n), [f \in Fields |-> Alternatives(f)], TRUE),
                       MaxDefects) :
              layout \in layouts, n \in 0..MaxRows}

InitExtract ==
    /\ \E values \in Sheets(ExtractLayouts) \cup {<< >>} :
           spreadsheet = Spreadsheet(values)
    /\ reference_row = "absent"
    /\ config = IdleConfig
    /\ wip_entries = << >>
    /\ invoice_data = None
    /\ call = [op |-> "none"]

\* one call of get_wip_entries(worksheet_name); the worksheet lookup raises
\* WorksheetNotFound for an unknown title and the fetch may fail
GetWipEntries ==
    \E worksheet_name \in {"Sheet1", "Missing"} :
    \E fetch_ok \in IF worksheet_name = "Missing" THEN {TRUE} ELSE BOOLEAN :
        LET found == worksheet_name \in WorksheetNames
            all_values == IF found THEN get_all_values(worksheet_name) ELSE << >>
            \* an exception that leaves the loop is re-raised by the outer handler
            raised == IF ~found THEN "WorksheetNotFound"
                      ELSE IF ~fetch_ok \/ scan_raises(all_values) THEN "Error" ELSE "none"
            ret == IF raised = "none" THEN get_wip_entries(all_values) ELSE << >>
            warnings == IF raised = "none" /\ all_values # << >>
                        THEN invalid_hours_warnings(all_values, column_map(all_values[1]), 2)
                        ELSE {}
        IN  /\ call' = [op |-> "get_wip_entries", worksheet_name |-> worksheet_name,
                        fetch_ok |-> fetch_ok, raised |-> raised, ret |-> ret,
                        warnings |-> warnings,
                        reads |-> IF found /\ fetch_ok THEN cell_reads(all_values) ELSE {}]
            /\ wip_entries' = IF raised = "none" THEN ret ELSE wip_entries
            /\ UNCHANGED <<spreadsheet, reference_row, config, invoice_data>>

NextExtract == GetWipEntries

SpecExtract == InitExtract /\ [][NextExtract]_vars

\* the extraction that just returned, and the sheet it read
Extracted == call.op = "get_wip_entries" /\ call.raised = "none"

ReadValues == get_all_values(call.worksheet_name)

ReadCols == column_map(ReadValues[1])

\* 1-based data-row numbers of the sheet that was read
DataRowNumbers == 2..Len(ReadValues)

RowNumbers(entries) == {entries[i].row_number : i \in 1..Len(entries)}

\* the row reaches every resolved column
Reaches(row, cols) ==
    \A c \in {cols.date_col, cols.hours_col, cols.category_col, cols.task_col,
              cols.persons_col, cols.invoice_col, cols.paid_col} : c < Len(row)

StatusIsWip(row, cols) ==
    cols.paid_col < Len(row) /\ upper(strip(row[cols.paid_col + 1])) = <<"W","I","P">>

\* C3: every entry returned by get_wip_entries comes from a data row whose
\* status cell, trimmed and uppercased, is "WIP"; a row with any other status
\* is never returned.
C3_OnlyWipRows ==
    Extracted =>
        LET cols == ReadCols
        IN  /\ \A i \in 1..Len(call.ret) :
                   /\ call.ret[i].row_number \in DataRowNumbers
                   /\ StatusIsWip(ReadValues[call.ret[i].row_number], cols)
            /\ \A r \in DataRowNumbers :
                   ~StatusIsWip(ReadValues[r], cols) => r \notin RowNumbers(call.ret)

\* a "Billed" row whose other fields are all valid is left out, a WIP row kept
C3_Witness ==
    /\ Extracted
    /\ call.worksheet_name = "Sheet1"
    /\ ReadValues = << HeaderRow(CanonicalLayout),
                       RowWith(CanonicalLayout, {<<7, <<"B","i","l","l","e","d">>>>}),
                       RowWith(CanonicalLayout, {}) >>
    /\ RowNumbers(call.ret) = {3}

\* C4: every entry returned by get_wip_entries has hours > 0 and a non-empty
\* trimmed description.
C4_PositiveHoursAndDescription ==
    Extracted =>
        \A i \in 1..Len(call.ret) :
            /\ gt_zero(call.ret[i].hours)
            /\ call.ret[i].description # << >>

\* the row qualifies under the four conditions the claim names
QualifiesAsClaimed(row, cols) ==
    /\ Reaches(row, cols)
    /\ StatusIsWip(row, cols)
    /\ gt_zero(float(row[cols.hours_col + 1]))
    /\ strip(row[cols.task_col + 1]) # << >>

\* ... and has a non-empty trimmed date
Qualifies(row, cols) ==
    /\ QualifiesAsClaimed(row, cols)
    /\ strip(row[cols.date_col + 1]) # << >>

EntriesOf(entries, r) == {i \in 1..Len(entries) : entries[i].row_number = r}

\* entries are in sheet order and each carries the number and the cells of its row
InRowOrder(entries, values, cols) ==
    /\ \A i \in 1..Len(entries) :
           /\ entries[i].row_number \in 2..Len(values)
           /\ entries[i].date = strip(values[entries[i].row_number][cols.date_col + 1])
           /\ entries[i].description =
                  strip(values[entries[i].row_number][cols.task_col + 1])
           /\ entries[i].hours = float(values[entries[i].row_number][cols.hours_col + 1])
    /\ \A i, j \in 1..Len(entries) :
           i < j => entries[i].row_number < entries[j].row_number

InvalidHours(row, cols) ==
    /\ Reaches(row, cols)
    /\ StatusIsWip(row, cols)
    /\ float(row[cols.hours_col + 1]) = ValueError

\* C11: get_wip_entries raises exactly when the worksheet is not found or the
\* fetch of its values fails; a WIP row whose hours cell does not parse is not
\* returned, a warning names it, and every qualifying row after it is returned.
C11_InvalidHoursRowSkipped ==
    call.op = "get_wip_entries" =>
        /\ call.raised # "none" <=>
               (call.worksheet_name \notin WorksheetNames \/ ~call.fetch_ok)
        /\ (call.raised = "none" /\ ReadValues # << >>) =>
               LET cols == ReadCols
               IN  \A r \in DataRowNumbers :
                       InvalidHours(ReadValues[r], cols) =>
                           /\ r \notin RowNumbers(call.ret)
                           /\ r \in call.warnings
                           /\ \A q \in DataRowNumbers :
                                  (q > r /\ Qualifies(ReadValues[q], cols))
                                      => q \in RowNumbers(call.ret)

\* row 2 has the hours cell "abc" and row 3 qualifies: row 3 alone is returned
C11_Witness ==
    /\ Extracted
    /\ call.worksheet_name = "Sheet1"
    /\ ReadValues = << HeaderRow(CanonicalLayout),
                       RowWith(CanonicalLayout, {<<2, <<"a","b","c">>>>}),
                       RowWith(CanonicalLayout, {}) >>
    /\ call.warnings = {2}
    /\ RowNumbers(call.ret) = {3}

\* C18: get_wip_entries never subscripts a row at an index at or beyond the
\* length of the row; a row whose length does not exceed the largest resolved
\* column index, the sentinel of an absent column included, is skipped: none of
\* its cells is read and no entry is returned for it.
C18_NoReadBeyondRow ==
    (call.op = "get_wip_entries" /\ call.worksheet_name \in WorksheetNames) =>
        /\ \A rd \in call.reads :
               /\ rd[1] \in DataRowNumbers
               /\ rd[2] >= 0
               /\ rd[2] < Len(ReadValues[rd[1]])
        /\ (Extracted /\ ReadValues # << >>) =>
               \A r \in DataRowNumbers :
                   Len(ReadValues[r]) <= max_col(ReadCols) =>
                       /\ r \notin RowNumbers(call.ret)
                       /\ \A rd \in call.reads : rd[1] # r

\* row 2 lost its last cell, the category, and is skipped unread; row 3 is read
\* at all seven indexes and returned
C18_Witness ==
    /\ Extracted
    /\ call.worksheet_name = "Sheet1"
    /\ ReadValues = << HeaderRow(AliasLayout),
                       SubSeq(RowWith(AliasLayout, {}), 1, 6),
                       RowWith(AliasLayout, {}) >>
    /\ call.reads = {<<3, c>> : c \in 0..6}
    /\ RowNumbers(call.ret) = {3}

\* the header row has no category column and a column for every other field
OnlyCategoryMissing(headers, cols) ==
    /\ cols.category_col = Len(headers)
    /\ \A c \in {cols.date_col, cols.hours_col, cols.task_col, cols.persons_col,
                  cols.invoice_col, cols.paid_col} : c < Len(headers)

\* a WIP row with hours > 0, a date and a description in the columns the header has
QualifiesWithoutCategory(row, cols) ==
    /\ is_wip(row, cols)
    /\ gt_zero(float(cell_or(row, cols.hours_col, <<"0">>)))
    /\ cell_or(row, cols.date_col, << >>) # << >>
    /\ cell_or(row, cols.task_col, << >>) # << >>

\* C19: when the header row has no category column and a column for every
\* other field, each qualifying WIP row as wide as the header row is returned
\* by get_wip_entries, once, with category "Enhancement".
C19_CategoryDefaultsToEnhancement ==
    (Extracted /\ ReadValues # << >> /\ OnlyCategoryMissing(ReadValues[1], ReadCols)) =>
        \A r \in DataRowNumbers :
            (Len(ReadValues[r]) = Len(ReadValues[1])
                 /\ QualifiesWithoutCategory(ReadValues[r], ReadCols)) =>
                /\ Cardinality(EntriesOf(call.ret, r)) = 1
                /\ \A i \in EntriesOf(call.ret, r) :
                       call.ret[i].category = <<"E","n","h","a","n","c","e","m","e","n","t">>

-----------------------------------------------------------------------------
(* InvoiceGenerator.generate_invoice.  Hours are Python ints, as in the   *)
(* entries SheetsReader.get_wip_entries hands to it (generate-invoice.py).*)

RECURSIVE sum_hours(_)
sum_hours(entries) ==
    IF entries = << >> THEN 0
    ELSE sum_hours(SubSeq(entries, 1, Len(entries) - 1)) + entries[Len(entries)].hours

\* a faulty variant: the last entry is left out of the total
total_hours_drop_last(entries) == sum_hours(SubSeq(entries, 1, Len(entries) - 1))

total_hours_of(entries) == sum_hours(entries)

\* a faulty variant: the discount is subtracted once more from the billed rate
subtotal_discounted_twice(total_hours, hourly_rate, discount_per_hour) ==
    total_hours * (hourly_rate - discount_per_hour)

\* subtotal = total_hours * hourly_rate
subtotal_of(total_hours, hourly_rate, discount_per_hour) == total_hours * hourly_rate

\* max(entry["date"] for entry in wip_entries): the first greatest str
RECURSIVE max_date_from(_, _, _)
max_date_from(entries, i, best) ==
    IF i > Len(entries) THEN best
    ELSE max_date_from(entries, i + 1,
                       IF str_less(best, entries[i].date) THEN entries[i].date ELSE best)

\* a faulty variant: the date of the last entry
max_date_of_last(entries) == entries[Len(entries)].date

max_date(entries) == max_date_from(entries, 2, entries[1].date)

generate_invoice(entries, invoice_number, cfg) ==
    LET total_hours == total_hours_of(entries)
        hourly_rate == cfg.hourly_rate
        discount_per_hour == cfg.discount
        original_rate == hourly_rate + discount_per_hour
        subtotal == subtotal_of(total_hours, hourly_rate, discount_per_hour)
        balance_due == subtotal
    IN  [invoice_number |-> invoice_number,
         invoice_date |-> max_date(entries),
         work_entries |-> entries,
         summary |-> [total_hours |-> total_hours,
                      hourly_rate |-> hourly_rate,
                      original_rate |-> original_rate,
                      discount_per_hour |-> discount_per_hour,
                      subtotal |-> subtotal,
                      balance_due |-> balance_due]]

-----------------------------------------------------------------------------
(* Specification of the aggregator: every non-empty entry sequence of at  *)
(* most MaxEntries entries with hours in 1..MaxHours, plus the built-in   *)
(* entry set, under the configured rates.                                  *)

\* hours of the entries SheetsReader.get_wip_entries returns
BuiltinHours == <<17, 15, 16, 9, 10, 17, 18>>

BuiltinDates ==
    << <<"6","/","4","/","2","5">>, <<"6","/","5","/","2","5">>, <<"6","/","6","/","2","5">>, <<"6","/","7","/","2","5">>,
       <<"6","/","8","/","2","5">>, <<"6","/","9","/","2","5">>, <<"6","/","1","0","/","2","5">> >>

BuiltinEntries ==
    [i \in 1..Len(BuiltinHours) |-> [date |-> BuiltinDates[i], hours |-> BuiltinHours[i]]]

InvoiceEntries ==
    {[date |-> d, hours |-> h] : d \in { <<"6","/","4","/","2","5">>, <<"6","/","1","0","/","2","5">> }, h \in 1..MaxHours}

\* hourly_rate and discount of config.json, and other settings
Rates == {[hourly_rate |-> 126, discount |-> 49],
          [hourly_rate |-> 126, discount |-> 0],
          [hourly_rate |-> 100, discount |-> 49]}

InitInvoice ==
    /\ spreadsheet = Spreadsheet(<< >>)
    /\ reference_row = "absent"
    /\ config \in Rates
    /\ wip_entries \in (SeqsUpTo(InvoiceEntries, MaxEntries) \ {<< >>}) \cup {BuiltinEntries}
    /\ invoice_data = None
    /\ call = [op |-> "none"]

\* generate-invoice.py calls generate_invoice only with a non-empty entry list
GenerateInvoice ==
    /\ wip_entries # << >>
    /\ invoice_data' = generate_invoice(wip_entries, <<"N","E","S","0","1","-","5","5","4","1">>, config)
    /\ call' = [op |-> "generate_invoice"]
    /\ UNCHANGED <<spreadsheet, reference_row, config, wip_entries>>

NextInvoice == GenerateInvoice

SpecInvoice == InitInvoice /\ [][NextInvoice]_vars

\* the arithmetic sum of the hours of a set of entry positions
RECURSIVE SumOver(_, _)
SumOver(entries, positions) ==
    IF positions = {} THEN 0
    ELSE LET p == CHOOSE q \in positions : TRUE
         IN  entries[p].hours + SumOver(entries, positions \ {p})

Generated == call.op = "generate_invoice"

C7_BalanceIndependentOfDiscount ==
    Generated =>
        LET s == invoice_data.summary
        IN  /\ s.hourly_rate = config.hourly_rate
            /\ s.discount_per_hour = config.discount
            /\ s.subtotal = s.total_hours * config.hourly_rate
            /\ s.balance_due = s.subtotal
            /\ s.original_rate = config.hourly_rate + config.discount
            /\ \A r \in Rates :
                   r.hourly_rate = config.hourly_rate =>
                       LET other == generate_invoice(wip_entries, invoice_data.invoice_number, r)
                       IN  /\ other.summary.subtotal = s.subtotal
                           /\ other.summary.balance_due = s.balance_due
                           /\ [other EXCEPT !.summary.original_rate = s.original_rate,
                                            !.summary.discount_per_hour = s.discount_per_hour]
                                  = invoice_data

\* rate 126, discount 49, 102 hours: original_rate 175, balance_due 12852
C7_Witness ==
    /\ Generated
    /\ invoice_data.work_entries = BuiltinEntries
    /\ config = [hourly_rate |-> 126, discount |-> 49]
    /\ invoice_data.summary.original_rate = 175
    /\ invoice_data.summary.subtotal = 12852
    /\ invoice_data.summary.balance_due = 12852

\* C13: generate_invoice sets invoice_date to the greatest date string of the
\* entries in str order (no entry has a greater one), and that value is the
\* date of one of the entries as it stands.
C13_InvoiceDateIsLexicographicMax ==
    Generated =>
        LET entries == invoice_data.work_entries
        IN  /\ \E i \in 1..Len(entries) : entries[i].date = invoice_data.invoice_date
            /\ \A i \in 1..Len(entries) : ~str_less(invoice_data.invoice_date, entries[i].date)

\* the built-in entries, dated 6/4/25 .. 6/10/25: the greatest str is "6/9/25"
C13_Witness ==
    /\ Generated
    /\ invoice_data.work_entries = BuiltinEntries
    /\ invoice_data.invoice_date = <<"6","/","9","/","2","5">>

-----------------------------------------------------------------------------
(* The Sheets API as the updater uses it: A1 addresses, the batched value *)
(* write of a worksheet and the batched repeatCell request.               *)

\* chr(n)
chr(n) == Ascii[n - 31]

\* str(n) of a non-negative int
RECURSIVE str(_)
str(n) == IF n < 10 THEN << Digits[n + 1] >> ELSE Append(str(n \div 10), Digits[(n % 10) + 1])

\* the cell a one-letter A1 address denotes; column letters are read without
\* regard to case, any other first character makes the range unparseable
ParseA1(address) ==
    LET letter == address[1]
        col == IF letter \in DOMAIN ToLower THEN CharIndex(letter, UpperChars)
               ELSE IF letter \in DOMAIN ToUpper THEN CharIndex(letter, LowerChars)
               ELSE 0
        digits == Tail(address)
        numeric == digits # << >> /\ \A i \in 1..Len(digits) : IsDigit(digits[i])
    IN  IF col > 0 /\ numeric /\ DigitsValue(digits) >= 1
        THEN [ok |-> TRUE, row |-> DigitsValue(digits), col |-> col]
        ELSE [ok |-> FALSE]

\* a batched value write is applied as a whole or rejected as a whole: one
\* unparseable range rejects it
ValuesAccepted(data) == \A i \in 1..Len(data) : ParseA1(data[i].range).ok

SetCell(values, r, c, v) ==
    LET rows == [i \in 1..Max({Len(values), r}) |->
                    IF i <= Len(values) THEN values[i] ELSE << >>]
        row == [j \in 1..Max({Len(rows[r]), c}) |->
                    IF j <= Len(rows[r]) THEN rows[r][j] ELSE << >>]
    IN  [rows EXCEPT ![r] = [row EXCEPT ![c] = v]]

\* a faulty variant: every update is appended as a new row instead of written in place
RECURSIVE apply_value_updates_append(_, _)
apply_value_updates_append(values, data) ==
    IF data = << >> THEN values
    ELSE apply_value_updates_append(Append(values, << data[1].values >>), Tail(data))

\* worksheet.batch_update(value_updates)
RECURSIVE apply_value_updates(_, _)
apply_value_updates(values, data) ==
    IF data = << >> THEN values
    ELSE apply_value_updates(
             SetCell(values, ParseA1(data[1].range).row, ParseA1(data[1].range).col,
                     data[1].values),
             Tail(data))

\* the worksheet whose sheetId is id
TitleOf(sheets, id) == CHOOSE title \in WorksheetNames : sheets[title].sheetId = id

\* a batched format request is rejected as a whole when a sheetId is unknown
FormatAccepted(sheets, requests) ==
    \A i \in 1..Len(requests) :
        \E title \in WorksheetNames : sheets[title].sheetId = requests[i].sheetId

\* spreadsheets().batchUpdate(body={"requests": format_requests})
RECURSIVE apply_format_requests(_, _)
apply_format_requests(sheets, requests) ==
    IF requests = << >> THEN sheets
    ELSE LET q == requests[1]
             title == TitleOf(sheets, q.sheetId)
             old == sheets[title].bg
             new == [r \in DOMAIN old |-> [c \in DOMAIN old[r] |->
                        IF /\ r \in (q.startRowIndex + 1)..q.endRowIndex
                           /\ c \in (q.startColumnIndex + 1)..q.endColumnIndex
                        THEN q.backgroundColor ELSE old[r][c]]]
         IN  apply_format_requests([sheets EXCEPT ![title].bg = new], Tail(requests))

\* worksheet.row_values(1): the first row without its trailing empty cells
row_values_1(values) ==
    IF values = << >> THEN << >>
    ELSE LET filled == {i \in 1..Len(values[1]) : values[1][i] # << >>}
         IN  IF filled = {} THEN << >> ELSE SubSeq(values[1], 1, Max(filled))

-----------------------------------------------------------------------------
(* SheetsReaderEnhanced.update_wip_to_billed_with_formatting               *)

Billed == <<"B","i","l","l","e","d">>

\* orange_color = {"red": 1, "green": 0.6}
orange_color == "orange"

\* entry.get("row_number"), 0 when the key is absent (None and 0 are both falsy)
get_row_number(entry) == IF "row_number" \in DOMAIN entry THEN entry.row_number ELSE 0

\* cell_address = f"{chr(64 + status_col_index)}{row_number}"
cell_address(status_col_index, row_number) == << chr(64 + status_col_index) >> \o str(row_number)

\* the repeatCell request of one row: sheetId 0, columns A..G
format_request(row_number, color) ==
    [sheetId |-> 0,
     startRowIndex |-> row_number - 1, endRowIndex |-> row_number,
     startColumnIndex |-> 0, endColumnIndex |-> 7,
     backgroundColor |-> color]

\* a faulty variant: the test `if row_number:` is dropped
numbered_any(entries) == entries

\* for entry in wip_entries: ... if row_number:
numbered(entries) == SelectSeq(entries, LAMBDA e : get_row_number(e) # 0)

value_updates(entries, status_col_index) ==
    [i \in 1..Len(numbered(entries)) |->
        [range |-> cell_address(status_col_index, get_row_number(numbered(entries)[i])),
         values |-> Billed]]

format_requests(entries, color) ==
    [i \in 1..Len(numbered(entries)) |->
        format_request(get_row_number(numbered(entries)[i]), color)]

\* the outcome of one run: the sheets afterwards, the return value and the
\* remote mutations that were sent, in order
Outcome(sheets, ret, log) == [sheets |-> sheets, ret |-> ret, log |-> log]

ValueWrite(worksheet_name, data, ok) ==
    [request |-> "worksheet.batch_update", worksheet |-> worksheet_name, data |-> data, ok |-> ok]

FormatWrite(requests, ok) ==
    [request |-> "spreadsheets.batchUpdate", requests |-> requests, ok |-> ok]

StatusAliases == << <<"p","a","i","d">>, <<"s","t","a","t","u","s">> >>

\* fail names the remote call of this run that raises, "none" when none does
update_wip_to_billed_with_formatting(sheets, entries, worksheet_name, fail) ==
    LET headers == row_values_1(sheets[worksheet_name].values)
        status_col_index == _find_column_index(headers, StatusAliases) + 1
        data == value_updates(entries, status_col_index)
        requests == format_requests(entries, orange_color)
        written == [sheets EXCEPT ![worksheet_name].values = apply_value_updates(sheets[worksheet_name].values, data)]
    IN  IF fail = "row_values" THEN Outcome(sheets, FALSE, << >>)
        ELSE IF status_col_index > Len(headers) THEN Outcome(sheets, FALSE, << >>)
        ELSE IF data = << >> THEN Outcome(sheets, FALSE, << >>)
        ELSE IF fail = "batch_update" \/ ~ValuesAccepted(data)
             THEN Outcome(sheets, FALSE, << ValueWrite(worksheet_name, data, FALSE) >>)
        ELSE IF fail = "build"
             THEN Outcome(written, FALSE, << ValueWrite(worksheet_name, data, TRUE) >>)
        ELSE IF fail = "batchUpdate" \/ ~FormatAccepted(written, requests)
             THEN Outcome(written, FALSE,
                          << ValueWrite(worksheet_name, data, TRUE), FormatWrite(requests, FALSE) >>)
        ELSE Outcome(apply_format_requests(written, requests), TRUE,
                     << ValueWrite(worksheet_name, data, TRUE), FormatWrite(requests, TRUE) >>)

-----------------------------------------------------------------------------
(* fix-colors.py: fix_existing_billed_rows_color                           *)

TargetInvoice == <<"N","E","S","0","1","-","5","5","4","1">>

\* the colour read from Sheet1!A932:G932, the literal when the response has none
reference_color(ref) == IF ref = "absent" THEN orange_color ELSE ref

\* a faulty variant: the status cell is compared without upper()
billed_for_invoice_case_sensitive(row, invoice_col, status_col) ==
    /\ Len(row) > Max({invoice_col, status_col})
    /\ strip(row[invoice_col + 1]) = TargetInvoice
    /\ strip(row[status_col + 1]) = <<"B","I","L","L","E","D">>

\* if invoice == "NES01-5541" and status == "BILLED"
billed_for_invoice(row, invoice_col, status_col) ==
    /\ Len(row) > Max({invoice_col, status_col})
    /\ strip(row[invoice_col + 1]) = TargetInvoice
    /\ upper(strip(row[status_col + 1])) = <<"B","I","L","L","E","D">>

billed_rows(all_values) ==
    LET headers == all_values[1]
        invoice_col == _find_column_index(headers, << <<"i","n","v","o","i","c","e">> >>)
        status_col == _find_column_index(headers, StatusAliases)
        found == {r \in 2..Len(all_values) : billed_for_invoice(all_values[r], invoice_col, status_col)}
    IN  [i \in 1..Cardinality(found) |->
            CHOOSE r \in found : Cardinality({q \in found : q < r}) = i - 1]

fix_existing_billed_rows_color(sheets, ref, fail) ==
    LET all_values == sheets["Sheet1"].values
        rows == billed_rows(all_values)
        requests == [i \in 1..Len(rows) |-> format_request(rows[i], reference_color(ref))]
    IN  IF fail = "get" \/ all_values = << >> THEN Outcome(sheets, FALSE, << >>)
        ELSE IF rows = << >> THEN Outcome(sheets, TRUE, << >>)
        ELSE IF fail = "batchUpdate" \/ ~FormatAccepted(sheets, requests)
             THEN Outcome(sheets, FALSE, << FormatWrite(requests, FALSE) >>)
        ELSE Outcome(apply_format_requests(sheets, requests), TRUE,
                     << FormatWrite(requests, TRUE) >>)

-----------------------------------------------------------------------------
(* Specification of the write-back.  Sheet1 has one of the layouts below  *)
(* and MaxRows data rows: well-formed WIP rows of the target invoice,     *)
(* with at most MaxDefects cells replaced (a row already "Billed", a row  *)
(* of another invoice).  The updater and the colour fix run in any order, *)
(* at most MaxRuns runs in all, each run with any one of its remote calls *)
(* failing.                                                                *)

\* no paid/status column
NoStatusLayout == SubSeq(CanonicalLayout, 1, 6)

\* the canonical columns A..F, unrelated columns, and the status column last
WideLayout(n) ==
    [c \in 1..n |->
        IF c <= 6 THEN CanonicalLayout[c]
        ELSE IF c = n THEN CanonicalLayout[7]
        ELSE [field |-> "other", header |-> <<"n","/","a">>]]

\* status column AA: chr(64 + 27) is "["
Wide27Layout == WideLayout(27)

\* status column AG: chr(64 + 33) is "a"
Wide33Layout == WideLayout(33)

UpdateLayouts == {CanonicalLayout, AliasLayout, NoStatusLayout, Wide27Layout, Wide33Layout}

UpdateAlternatives(field) ==
    CASE field = "status" -> { <<"B","i","l","l","e","d">> }
      [] field = "invoice" -> { <<"N","E","S","0","1","-","5","5","4","2">> }
      [] OTHER -> {}

UpdateSheets ==
    UNION {WithDefects(GoodSheet(layout, MaxRows),
                       Defects(layout, GoodSheet(layout, MaxRows),
                               [f \in Fields |-> UpdateAlternatives(f)], FALSE),
                       MaxDefects) :
              layout \in UpdateLayouts}

\* the background of the reference row as the API reports it
ReferenceRows == {"absent", "amber"}

\* the entry lists a caller passes: entries of rows of the grid in row order,
\* as get_wip_entries returns them, and lists with an entry of the built-in
\* set, which carries no row number
EntryLists ==
    LET rows(R) == [i \in 1..Cardinality(R) |->
                       [row_number |-> CHOOSE r \in R : Cardinality({q \in R : q < r}) = i - 1]]
    IN  {rows(R) : R \in SUBSET (2..GridRows)}
            \cup {<< BuiltinEntries[1] >>, << BuiltinEntries[1] >> \o rows(2..GridRows)}

\* what the next call remembers of the call before it
Forget(c) == [k \in DOMAIN c \ {"prev"} |-> c[k]]

Init ==
    /\ \E values \in UpdateSheets : spreadsheet = Spreadsheet(values)
    /\ reference_row \in ReferenceRows
    /\ config = IdleConfig
    /\ wip_entries = << >>
    /\ invoice_data = None
    /\ call = [op |-> "none", n |-> 0]

Update ==
    /\ call.n < MaxRuns
    /\ \E entries \in EntryLists, worksheet_name \in WorksheetNames,
       fail \in {"none", "row_values", "batch_update", "build", "batchUpdate"} :
        LET out == update_wip_to_billed_with_formatting(spreadsheet, entries, worksheet_name, fail)
        IN  /\ spreadsheet' = out.sheets
            /\ wip_entries' = entries
            /\ call' = [op |-> "update", n |-> call.n + 1, wip_entries |-> entries,
                        worksheet_name |-> worksheet_name, fail |-> fail,
                        ret |-> out.ret, log |-> out.log, prev |-> Forget(call)]
            /\ UNCHANGED <<reference_row, config, invoice_data>>

Fix ==
    /\ call.n < MaxRuns
    /\ \E fail \in {"none", "get", "batchUpdate"} :
        LET out == fix_existing_billed_rows_color(spreadsheet, reference_row, fail)
        IN  /\ spreadsheet' = out.sheets
            /\ call' = [op |-> "fix", n |-> call.n + 1, fail |-> fail,
                        ret |-> out.ret, log |-> out.log, prev |-> Forget(call)]
            /\ UNCHANGED <<reference_row, config, wip_entries, invoice_data>>

Next == Update \/ Fix

Spec == Init /\ [][Next]_vars

\* the rows whose numbers the entries carry
ListedRows(entries) == {get_row_number(entries[i]) : i \in 1..Len(entries)} \ {0}

HasStatusColumn(sheets, title) ==
    LET headers == row_values_1(sheets[title].values)
    IN  _find_column_index(headers, StatusAliases) < Len(headers)

\* the cell of row r in the paid/status column of the worksheet
StatusCell(sheets, title, r) ==
    LET values == sheets[title].values
        col == _find_column_index(row_values_1(values), StatusAliases) + 1
    IN  IF r <= Len(values) /\ col <= Len(values[r]) THEN values[r][col] ELSE << >>

InvoiceCell(sheets, title, r) ==
    LET values == sheets[title].values
        col == _find_column_index(row_values_1(values), << <<"i","n","v","o","i","c","e">> >>) + 1
    IN  IF r <= Len(values) /\ col <= Len(values[r]) THEN values[r][col] ELSE << >>

\* columns A..G of row r have the colour
Highlighted(sheets, title, r, color) == \A c \in 1..7 : sheets[title].bg[r][c] = color

IsValueWrite(m) == m.request = "worksheet.batch_update"

IsFormatWrite(m) == m.request = "spreadsheets.batchUpdate"

\* C1: for a non-empty entry list whose entries all carry a row number, on a
\* worksheet that has a paid/status column and with no remote call failing,
\* one updater run sends exactly two mutations, the value write and then the
\* format request, one item per listed entry each; afterwards the status cell
\* of every listed row of the worksheet reads "Billed" and columns A..G of
\* every listed row of the worksheet have the highlight colour.
C1_TwoMutations ==
    ( /\ call.op = "update"
      /\ call.fail = "none"
      /\ call.wip_entries # << >>
      /\ \A i \in 1..Len(call.wip_entries) : "row_number" \in DOMAIN call.wip_entries[i]
      /\ HasStatusColumn(spreadsheet, call.worksheet_name) )
    => /\ Len(call.log) = 2
       /\ IsValueWrite(call.log[1]) /\ call.log[1].ok
       /\ IsFormatWrite(call.log[2]) /\ call.log[2].ok
       /\ Len(call.log[1].data) = Len(call.wip_entries)
       /\ Len(call.log[2].requests) = Len(call.wip_entries)
       /\ \A r \in ListedRows(call.wip_entries) :
              /\ StatusCell(spreadsheet, call.worksheet_name, r) = Billed
              /\ Highlighted(spreadsheet, call.worksheet_name, r, orange_color)

\* C2: in every updater run a format write is sent only after a value write
\* that succeeded; a failed value write is the only mutation of its run and
\* leaves the sheets as they were; after a value write that succeeded and a
\* format write that failed every listed row has the status "Billed" and the
\* background colours are as before the run; either way the run returns False.
C2_NoRollback ==
    [][ call'.op = "update" =>
          LET log == call'.log
              name == call'.worksheet_name
          IN  /\ \A i \in 1..Len(log) :
                     IsFormatWrite(log[i]) => i = 2 /\ IsValueWrite(log[1]) /\ log[1].ok
              /\ (log # << >> /\ ~log[1].ok) =>
                     /\ Len(log) = 1
                     /\ spreadsheet' = spreadsheet
                     /\ call'.ret = FALSE
              /\ (Len(log) = 2 /\ ~log[2].ok) =>
                     /\ \A r \in ListedRows(call'.wip_entries) :
                            StatusCell(spreadsheet', name, r) = Billed
                     /\ \A title \in WorksheetNames : spreadsheet'[title].bg = spreadsheet[title].bg
                     /\ call'.ret = FALSE
      ]_vars

\* the run that just returned repeats the successful run before it
Repeated ==
    /\ call.op = "update"
    /\ call.prev.op = "update"
    /\ call.prev.ret
    /\ call.wip_entries = call.prev.wip_entries
    /\ call.worksheet_name = call.prev.worksheet_name

\* C8: an updater run that follows a successful updater run with the same
\* entries on the same worksheet leaves every worksheet as the first run left
\* it: the same cell values, the same number of rows, the same background
\* colours.
C8_Idempotent ==
    [][ ( /\ call.op = "update" /\ call.ret
          /\ call'.op = "update"
          /\ call'.wip_entries = call.wip_entries
          /\ call'.worksheet_name = call.worksheet_name )
        => spreadsheet' = spreadsheet ]_vars

\* the second of two successful runs on rows 2 and 3 of the canonical sheet
C8_Witness ==
    /\ Repeated
    /\ call.ret
    /\ call.worksheet_name = "Sheet1"
    /\ ListedRows(call.wip_entries) = 2..GridRows
    /\ get_all_values("Sheet1")[1] = HeaderRow(CanonicalLayout)
    /\ \A r \in 2..GridRows :
           /\ StatusCell(spreadsheet, "Sheet1", r) = Billed
           /\ Highlighted(spreadsheet, "Sheet1", r, orange_color)

\* an updater run whose value write succeeded and whose format write did not
PartialFailure(c) ==
    /\ c.op = "update"
    /\ ~c.ret
    /\ c.log # << >>
    /\ c.log[1].ok

\* a successful colour fix right after a partial failure of the updater
Recovered == call.op = "fix" /\ call.ret /\ PartialFailure(call.prev)

\* the rows the failed run marked: listed, and "Billed" in the status cell
MarkedRows ==
    {r \in ListedRows(call.prev.wip_entries) :
        StatusCell(spreadsheet, call.prev.worksheet_name, r) = Billed}

-----------------------------------------------------------------------------
(* InvoiceGenerator.generate_html and save_files, PDFConverter.html_to_pdf *)

\* for entry in wip_entries: one <tr> of five <td> cells, the third a literal
time_entry_rows(entries) ==
    [i \in 1..Len(entries) |->
        << entries[i].date, str(entries[i].hours), <<"E","n","h","a","n","c","e","m","e","n","t">>,
           entries[i].description, entries[i].persons >>]

\* the document, as far as the time-entry table goes: its title and its rows
generate_html(data) ==
    [title |-> data.invoice_number, rows |-> time_entry_rows(data.work_entries)]

\* the files written, by kind; os.makedirs or an open() that fails raises
save_files(output, io_ok) ==
    IF ~io_ok
    THEN [raised |-> TRUE, files_created |-> {}]
    ELSE [raised |-> FALSE,
          files_created |-> (IF output.generate_html THEN {"html"} ELSE {})
                                \cup (IF output.generate_json THEN {"json"} ELSE {})]

\* the commands html_to_pdf runs, in order, and its return value.  which_found:
\* `which wkhtmltopdf` exits 0; install_ok: both apt-get commands exit 0;
\* returncode: the exit code of wkhtmltopdf once it is installed.  Without the
\* utility the conversion command raises FileNotFoundError, which is caught.
html_to_pdf(which_found, install_ok, returncode) ==
    LET installed == which_found \/ install_ok
        commands == << "which" >> \o (IF which_found THEN << >> ELSE << "install" >>)
                        \o << "wkhtmltopdf" >>
    IN  [commands |-> commands,
         ret |-> installed /\ returncode = 0]

\* SheetsReader.get_invoice_number: wip_entries[0].get("invoice", "NES01-5541")
first_invoice_number(entries) ==
    IF entries # << >> /\ "invoice" \in DOMAIN entries[1] THEN entries[1].invoice
    ELSE TargetInvoice

-----------------------------------------------------------------------------
(* Specification of the entry point, generate-invoice.py main: one run,   *)
(* step by step.  call.pc is the step main is about to take, call.ret its *)
(* return value (-1 until it returns), call.calls the component methods   *)
(* it has invoked so far.                                                  *)

\* the list SheetsReader.get_wip_entries returns, descriptions shortened
BuiltinWorkEntries ==
    [i \in 1..Len(BuiltinHours) |->
        [date |-> BuiltinDates[i], hours |-> BuiltinHours[i],
         description |-> IF i = 3 THEN <<"A","A","E","-","1","0","1"," ","E","R","V","2">> ELSE <<"A","A","E","-","1","0","1"," ","U","A","T">>,
         persons |-> <<"B","K","/","D","H">>, invoice |-> TargetInvoice]]

\* entries as an extractor over the sheet returns them
SheetEntries ==
    { [date |-> <<"6","/","4","/","2","5">>, hours |-> 2, category |-> <<"E","n","h","a","n","c","e","m","e","n","t">>,
       description |-> <<"f","i","x">>, persons |-> <<"B","K">>, invoice |-> TargetInvoice, row_number |-> 2],
      [date |-> <<"6","/","1","0","/","2","5">>, hours |-> 3, category |-> <<"B","u","g">>,
       description |-> <<"r","e","v","i","e","w">>, persons |-> <<"D","H">>, invoice |-> <<"N","E","S","0","1","-","5","5","4","2">>, row_number |-> 3] }

\* what the reader hands to main: its built-in list, or any list of at most
\* MaxEntries entries, the empty one included
ReaderResults == {BuiltinWorkEntries} \cup SeqsUpTo(SheetEntries, MaxEntries)

\* config.json: the configured rates and every setting of the output switches
MainConfigs ==
    {[hourly_rate |-> 126, discount |-> 49,
      output |-> [generate_html |-> h, generate_json |-> j, generate_pdf |-> p]] :
        h \in BOOLEAN, j \in BOOLEAN, p \in BOOLEAN}

MainFrame(pc, ret, message, calls, html_content, files_created, commands, converted) ==
    [op |-> "main", pc |-> pc, ret |-> ret, message |-> message, calls |-> calls,
     html_content |-> html_content, files_created |-> files_created, commands |-> commands,
     converted |-> converted]

InitMain ==
    /\ spreadsheet = Spreadsheet(<< >>)
    /\ reference_row = "absent"
    /\ config \in MainConfigs
    /\ wip_entries = << >>
    /\ invoice_data = None
    /\ call = MainFrame("config", -1, "none", << >>, None, {}, << >>, "none")

\* a faulty variant: the run ends with 0 whatever happened
Return0(message) == [call EXCEPT !.pc = "done", !.ret = 0, !.message = message]

\* return 1 from the current step: a reported condition or the except clause
Return1(message) == [call EXCEPT !.pc = "done", !.ret = 1, !.message = message]

\* lines 26-37: config.json is looked up and loaded, the components are built
MainLoadConfig ==
    /\ call.pc = "config"
    /\ \E exists \in BOOLEAN, loads \in BOOLEAN :
           call' = IF ~exists THEN Return1("config.json not found")
                   ELSE IF ~loads THEN Return1("Error generating invoice")
                   ELSE [call EXCEPT !.pc = "read"]
    /\ UNCHANGED <<spreadsheet, reference_row, config, wip_entries, invoice_data>>

\* a faulty variant: the list is never taken for empty
not_wip_entries_never(entries) == FALSE

\* if not wip_entries
not_wip_entries(entries) == entries = << >>

\* lines 40-46: the entries are read and an empty list ends the run
MainGetEntries ==
    /\ call.pc = "read"
    /\ \/ /\ call' = [Return1("Error generating invoice") EXCEPT
                         !.calls = Append(call.calls, "get_wip_entries")]
          /\ UNCHANGED wip_entries
       \/ \E entries \in ReaderResults :
              /\ wip_entries' = entries
              /\ call' = [(IF not_wip_entries(entries) THEN Return1("No WIP entries found")
                           ELSE [call EXCEPT !.pc = "generate"])
                          EXCEPT !.calls = Append(call.calls, "get_wip_entries")]
    /\ UNCHANGED <<spreadsheet, reference_row, config, invoice_data>>

\* lines 49-53: the invoice number and the invoice record; max() of no dates
\* raises ValueError
MainGenerateInvoice ==
    /\ call.pc = "generate"
    /\ IF wip_entries = << >>
       THEN /\ call' = [Return1("Error generating invoice") EXCEPT
                           !.calls = call.calls \o << "get_invoice_number", "generate_invoice" >>]
            /\ UNCHANGED invoice_data
       ELSE /\ invoice_data' = generate_invoice(wip_entries, first_invoice_number(wip_entries), config)
            /\ call' = [call EXCEPT
                           !.pc = "html",
                           !.calls = call.calls \o << "get_invoice_number", "generate_invoice" >>]
    /\ UNCHANGED <<spreadsheet, reference_row, config, wip_entries>>

\* line 56
MainGenerateHtml ==
    /\ call.pc = "html"
    /\ call' = [call EXCEPT !.pc = "save",
                            !.html_content = generate_html(invoice_data),
                            !.calls = Append(call.calls, "generate_html")]
    /\ UNCHANGED <<spreadsheet, reference_row, config, wip_entries, invoice_data>>

\* line 59
MainSaveFiles ==
    /\ call.pc = "save"
    /\ \E io_ok \in BOOLEAN :
           LET saved == save_files(config.output, io_ok)
           IN  call' = [(IF saved.raised THEN Return1("Error generating invoice")
                         ELSE [call EXCEPT !.pc = "pdf", !.files_created = saved.files_created])
                        EXCEPT !.calls = Append(call.calls, "save_files")]
    /\ UNCHANGED <<spreadsheet, reference_row, config, wip_entries, invoice_data>>

\* lines 62-84: the optional conversion, the summary, return 0
\* a faulty variant: the conversion is attempted whenever a PDF is asked for
pdf_requested_any(output, files_created) == output.generate_pdf

\* if config["output"]["generate_pdf"] and "html" in files_created
pdf_requested(output, files_created) ==
    output.generate_pdf /\ "html" \in files_created

MainConvertAndReturn ==
    /\ call.pc = "pdf"
    /\ IF pdf_requested(config.output, call.files_created)
       THEN \E which_found \in BOOLEAN, install_ok \in BOOLEAN, returncode \in {0, 1} :
                LET pdf == html_to_pdf(which_found, install_ok, returncode)
                IN  call' = [call EXCEPT
                                !.pc = "done", !.ret = 0,
                                !.message = "Invoice Generated Successfully",
                                !.calls = Append(call.calls, "html_to_pdf"),
                                !.commands = pdf.commands,
                                !.converted = IF pdf.ret THEN "True" ELSE "False",
                                !.files_created = IF pdf.ret THEN call.files_created \cup {"pdf"}
                                                  ELSE call.files_created]
       ELSE call' = [call EXCEPT !.pc = "done", !.ret = 0,
                                 !.message = "Invoice Generated Successfully"]
    /\ UNCHANGED <<spreadsheet, reference_row, config, wip_entries, invoice_data>>

NextMain ==
    \/ MainLoadConfig
    \/ MainGetEntries
    \/ MainGenerateInvoice
    \/ MainGenerateHtml
    \/ MainSaveFiles
    \/ MainConvertAndReturn

SpecMain == InitMain /\ [][NextMain]_vars

\* main has invoked the component method
Called(name) == call.op = "main" /\ \E i \in 1..Len(call.calls) : call.calls[i] = name

\* the category of an entry; an entry of the built-in list has the default
CategoryOf(entry) == IF "category" \in DOMAIN entry THEN entry.category ELSE <<"E","n","h","a","n","c","e","m","e","n","t">>

\* C12: the document generate_html returns has exactly one time-entry row per
\* entry of the invoice record, in entry order, and row i shows the date, the
\* hours, the category, the description and the persons of entry i.
C12_OneRowPerEntry ==
    Called("generate_html") =>
        LET entries == invoice_data.work_entries
            rows == call.html_content.rows
        IN  /\ Len(rows) = Len(entries)
            /\ \A i \in 1..Len(entries) :
                   rows[i] = << entries[i].date, str(entries[i].hours), CategoryOf(entries[i]),
                                entries[i].description, entries[i].persons >>

-----------------------------------------------------------------------------
(* SheetsReaderEnhanced.get_invoice_number                                 *)

\* entry.get("invoice", "").strip()
invoice_of(entry) == IF "invoice" \in DOMAIN entry THEN strip(entry.invoice) ELSE << >>

\* invoice_counts: the dict as its items in insertion order, <<key, count>>
RECURSIVE invoice_counts(_, _)
invoice_counts(entries, counts) ==
    IF entries = << >> THEN counts
    ELSE LET invoice == invoice_of(entries[1])
             at == {k \in 1..Len(counts) : counts[k][1] = invoice}
         IN  invoice_counts(Tail(entries),
                 IF invoice = << >> THEN counts
                 ELSE IF at = {} THEN Append(counts, <<invoice, 1>>)
                 ELSE [counts EXCEPT ![CHOOSE k \in at : TRUE][2] = counts[CHOOSE k \in at : TRUE][2] + 1])

\* a faulty variant: among the greatest counts the last item wins
max_by_count_last(items) ==
    items[Max({k \in 1..Len(items) : \A j \in 1..Len(items) : items[j][2] <= items[k][2]})]

\* max(items, key=lambda x: x[1]): the first item with the greatest count
max_by_count(items) ==
    items[Min({k \in 1..Len(items) : \A j \in 1..Len(items) : items[j][2] <= items[k][2]})]

get_invoice_number(entries) ==
    IF entries = << >> THEN TargetInvoice
    ELSE IF invoice_counts(entries, << >>) # << >>
         THEN max_by_count(invoice_counts(entries, << >>))[1]
         ELSE TargetInvoice

-----------------------------------------------------------------------------
(* Specification of the invoice-number choice: every entry list of at most *)
(* MaxEntries entries over the identifiers below.                          *)

NumberedEntries ==
    { [invoice |-> v] : v \in { TargetInvoice, <<"N","E","S","0","1","-","5","5","4","2">>, <<" ","N","E","S","0","1","-","5","5","4","2"," ">>, <<" ">>, << >> } }
        \cup { [date |-> <<"6","/","4","/","2","5">>] }

InitNumber ==
    /\ spreadsheet = Spreadsheet(<< >>)
    /\ reference_row = "absent"
    /\ config = IdleConfig
    /\ wip_entries \in SeqsUpTo(NumberedEntries, MaxEntries)
    /\ invoice_data = None
    /\ call = [op |-> "none"]

GetInvoiceNumber ==
    /\ call' = [op |-> "get_invoice_number", wip_entries |-> wip_entries,
                ret |-> get_invoice_number(wip_entries)]
    /\ UNCHANGED <<spreadsheet, reference_row, config, wip_entries, invoice_data>>

NextNumber == GetInvoiceNumber

SpecNumber == InitNumber /\ [][NextNumber]_vars

\* the trimmed identifier of entry i, empty when the entry has none
TrimmedInvoice(entries, i) ==
    IF "invoice" \in DOMAIN entries[i] THEN strip(entries[i].invoice) ELSE << >>

Occurrences(entries, id) == {i \in 1..Len(entries) : TrimmedInvoice(entries, i) = id}

\* C14: get_invoice_number returns "NES01-5541" when no entry has a non-empty
\* trimmed identifier (the empty list included); otherwise it returns a
\* non-empty trimmed identifier of the entries that no other identifier
\* outnumbers, and every identifier that occurs as often occurs first at a
\* later entry.
C14_MostFrequentInvoiceNumber ==
    call.op = "get_invoice_number" =>
        LET entries == call.wip_entries
            ids == {TrimmedInvoice(entries, i) : i \in 1..Len(entries)} \ {<< >>}
        IN  IF ids = {} THEN call.ret = TargetInvoice
            ELSE /\ call.ret \in ids
                 /\ \A id \in ids \ {call.ret} :
                        \/ Cardinality(Occurrences(entries, id))
                               < Cardinality(Occurrences(entries, call.ret))
                        \/ /\ Cardinality(Occurrences(entries, id))
                                  = Cardinality(Occurrences(entries, call.ret))
                           /\ Min(Occurrences(entries, call.ret)) < Min(Occurrences(entries, id))

\* a tie of one against one: the identifier met first wins, trimmed
C14_Witness ==
    /\ call.op = "get_invoice_number"
    /\ call.wip_entries = << [invoice |-> <<" ","N","E","S","0","1","-","5","5","4","2"," ">>], [invoice |-> TargetInvoice],
                             [invoice |-> << >>] >>
    /\ call.ret = <<"N","E","S","0","1","-","5","5","4","2">>

\* C15: generate_invoice is called with a non-empty list only; when the reader
\* returns no entries main returns 1 with the message that none were found and
\* has not called generate_invoice; every invoice record that is rendered or
\* saved has a non-empty entry list.
C15_NoAggregationOfEmptySet ==
    call.op = "main" =>
        /\ Called("generate_invoice") => wip_entries # << >>
        /\ (Called("get_wip_entries") /\ wip_entries = << >>) =>
               /\ call.pc = "done"
               /\ call.ret = 1
               /\ call.message \in {"No WIP entries found", "Error generating invoice"}
               /\ call.calls = << "get_wip_entries" >>
        /\ call.message = "No WIP entries found" => wip_entries = << >>
        /\ (Called("generate_html") \/ Called("save_files")) =>
               invoice_data.work_entries # << >>

\* the reader returned the empty list and main returned 1 at once
C15_Witness ==
    /\ call.op = "main"
    /\ call.calls = << "get_wip_entries" >>
    /\ wip_entries = << >>
    /\ call.message = "No WIP entries found"
    /\ call.ret = 1

\* the files save_files is asked to write
RequestedFiles ==
    (IF config.output.generate_html THEN {"html"} ELSE {})
        \cup (IF config.output.generate_json THEN {"json"} ELSE {})

\* C16: main returns 0 or 1; it returns 0 exactly when entries were found, the
\* invoice record and the HTML were generated and save_files wrote the files
\* asked of it, none of these steps raising; it returns 1 with the matching
\* message when config.json is missing, when no entries are found and when a
\* step raises.
C16_ExitCode ==
    (call.op = "main" /\ call.pc = "done") =>
        /\ call.ret \in {0, 1}
        /\ call.ret = 0 <=>
               /\ wip_entries # << >>
               /\ call.message = "Invoice Generated Successfully"
               /\ Called("generate_invoice") /\ Called("generate_html") /\ Called("save_files")
               /\ invoice_data.work_entries = wip_entries
               /\ call.html_content = generate_html(invoice_data)
               /\ RequestedFiles \subseteq call.files_created
        /\ call.ret = 1 <=>
               call.message \in {"config.json not found", "No WIP entries found",
                                 "Error generating invoice"}
        /\ call.message = "No WIP entries found" <=>
               (call.calls = << "get_wip_entries" >> /\ wip_entries = << >>
                    /\ call.message # "Error generating invoice")
        /\ call.message = "config.json not found" => call.calls = << >>

\* a run without PDF output that wrote the HTML and the JSON file and returned 0
C16_Witness ==
    /\ call.op = "main"
    /\ call.pc = "done"
    /\ call.ret = 0
    /\ wip_entries = BuiltinWorkEntries
    /\ ~config.output.generate_pdf
    /\ call.files_created = {"html", "json"}

\* C17: html_to_pdf is called only when a PDF is asked for and save_files wrote
\* the HTML file; when the conversion fails the run still returns 0 and the
\* files it reports are the HTML file, the JSON file if asked for, and no PDF.
C17_PdfFailureIsNotFatal ==
    (call.op = "main" /\ call.pc = "done") =>
        /\ Called("html_to_pdf") <=> call.converted # "none"
        /\ Called("html_to_pdf") =>
               /\ config.output.generate_pdf
               /\ config.output.generate_html
               /\ "html" \in call.files_created
               /\ call.commands[Len(call.commands)] = "wkhtmltopdf"
        /\ call.converted = "False" =>
               /\ call.ret = 0
               /\ call.message = "Invoice Generated Successfully"
               /\ call.files_created = RequestedFiles
        /\ "pdf" \in call.files_created <=> call.converted = "True"

\* the utility was missing, its installation failed, and the run that also
\* wrote the JSON file ended
C17_Witness ==
    /\ call.op = "main"
    /\ call.pc = "done"
    /\ call.converted = "False"
    /\ call.commands = << "which", "install", "wkhtmltopdf" >>
    /\ config.output.generate_json

-----------------------------------------------------------------------------
(* Credentials and authentication.  The credentials document is absent,   *)
(* not JSON, or a JSON object with some of the fields below; opening the   *)
(* spreadsheet by key is the remote authentication.                        *)

CredentialFields == {"type", "project_id", "private_key", "client_email", "token_uri"}

CredentialDocs ==
    {[state |-> s, fields |-> {}, type |-> "none"] : s \in {"absent", "invalid_json"}}
        \cup {[state |-> "json", fields |-> F, type |-> "none"] :
                 F \in SUBSET (CredentialFields \ {"type"})}
        \cup {[state |-> "json", fields |-> F \cup {"type"}, type |-> t] :
                 F \in SUBSET (CredentialFields \ {"type"}),
                 t \in {"service_account", "authorized_user"}}

\* test_credentials_file: the diagnostic it prints and the value it returns
test_credentials_file(doc) ==
    IF doc.state = "absent"
    THEN [ret |-> FALSE, diagnostic |-> "Credentials file not found"]
    ELSE IF doc.state = "invalid_json"
    THEN [ret |-> FALSE, diagnostic |-> "Invalid JSON in credentials file"]
    ELSE IF ~({"type", "project_id", "private_key", "client_email"} \subseteq doc.fields)
    THEN [ret |-> FALSE, diagnostic |-> "Invalid credentials file. Missing fields"]
    ELSE IF doc.type # "service_account"
    THEN [ret |-> FALSE, diagnostic |-> "Invalid credentials type"]
    ELSE [ret |-> TRUE, diagnostic |-> "none"]

\* Credentials.from_service_account_file: the document must parse and hold the
\* fields the signer and the token request are built from
from_service_account_file(doc) ==
    doc.state = "json" /\ {"client_email", "token_uri", "private_key"} \subseteq doc.fields

\* SheetsReaderEnhanced._authenticate; remote is the outcome of open_by_key
_authenticate(doc, remote) ==
    IF doc.state = "absent"
    THEN [raised |-> "Credentials file not found", attempts |-> 0]
    ELSE IF ~from_service_account_file(doc)
    THEN [raised |-> "Authentication failed", attempts |-> 0]
    ELSE IF remote = "SpreadsheetNotFound"
    THEN [raised |-> "Spreadsheet not found", attempts |-> 1]
    ELSE IF remote = "error"
    THEN [raised |-> "Authentication failed", attempts |-> 1]
    ELSE [raised |-> "none", attempts |-> 1]

\* the constructor of sheets_reader_secure.SheetsReader: the four fields and
\* the type are validated, then the reader authenticates as above
secure_authenticate(doc, remote) ==
    IF test_credentials_file(doc).ret
    THEN _authenticate(doc, remote)
    ELSE [raised |-> test_credentials_file(doc).diagnostic, attempts |-> 0]

RemoteOutcomes == {"ok", "SpreadsheetNotFound", "error"}

\* the state of a script: position, the results of the tests run so far, the
\* diagnostics printed, the remote authentication attempts made, and whether an
\* exception left the script
AuthFrame(op, pc, results, diagnostics, attempts, escaped) ==
    [op |-> op, pc |-> pc, results |-> results, diagnostics |-> diagnostics,
     attempts |-> attempts, escaped |-> escaped]

InitAuth ==
    /\ spreadsheet = Spreadsheet(<< >>)
    /\ reference_row = "absent"
    /\ config \in {[credentials |-> doc, config_secure |-> c] :
                      doc \in CredentialDocs, c \in {"valid", "absent"}}
    /\ wip_entries = << >>
    /\ invoice_data = None
    /\ \E script \in {"test-secure-auth", "test-billed-update"} :
           call = AuthFrame(script, "start", << >>, {}, 0, FALSE)

\* one test of main's loop: the result is recorded, an exception would be
\* caught by the loop and recorded as False
RecordTest(pc, ret, diagnostic, attempts) ==
    [call EXCEPT !.pc = pc,
                 !.results = Append(call.results, ret),
                 !.diagnostics = IF diagnostic = "none" THEN @ ELSE @ \cup {diagnostic},
                 !.attempts = @ + attempts]

TestCredentialsFile ==
    /\ call.op = "test-secure-auth" /\ call.pc = "start"
    /\ LET t == test_credentials_file(config.credentials)
       IN  call' = RecordTest("config", t.ret, t.diagnostic, 0)
    /\ UNCHANGED <<spreadsheet, reference_row, config, wip_entries, invoice_data>>

TestConfigFile ==
    /\ call.op = "test-secure-auth" /\ call.pc = "config"
    /\ call' = IF config.config_secure = "valid"
               THEN RecordTest("authentication", TRUE, "none", 0)
               ELSE RecordTest("authentication", FALSE, "Configuration file not found", 0)
    /\ UNCHANGED <<spreadsheet, reference_row, config, wip_entries, invoice_data>>

\* test_authentication and test_wip_reading: each loads the configuration and
\* constructs a reader inside its own try
TestWithReader(next, failure, remote) ==
    LET a == secure_authenticate(config.credentials, remote)
    IN  IF config.config_secure # "valid"
        THEN RecordTest(next, FALSE, failure, 0)
        ELSE IF a.raised # "none"
        THEN RecordTest(next, FALSE, failure, a.attempts)
        ELSE RecordTest(next, TRUE, "none", a.attempts)

TestAuthentication ==
    /\ call.op = "test-secure-auth" /\ call.pc = "authentication"
    /\ \E remote \in RemoteOutcomes :
           call' = TestWithReader("wip", "Authentication failed", remote)
    /\ UNCHANGED <<spreadsheet, reference_row, config, wip_entries, invoice_data>>

TestWipReading ==
    /\ call.op = "test-secure-auth" /\ call.pc = "wip"
    /\ \E remote \in RemoteOutcomes :
           call' = TestWithReader("summary", "Error reading WIP entries", remote)
    /\ UNCHANGED <<spreadsheet, reference_row, config, wip_entries, invoice_data>>

TestSummary ==
    /\ call.op = "test-secure-auth" /\ call.pc = "summary"
    /\ call' = [call EXCEPT !.pc = "done"]
    /\ UNCHANGED <<spreadsheet, reference_row, config, wip_entries, invoice_data>>

\* the scripts that work on the sheet load the configuration and construct
\* SheetsReaderEnhanced inside their try; except Exception prints and returns False
ConstructEnhanced ==
    /\ call.op = "test-billed-update" /\ call.pc = "start"
    /\ \E remote \in RemoteOutcomes :
           LET a == _authenticate(config.credentials, remote)
           IN  call' = IF config.config_secure # "valid"
                       THEN [call EXCEPT !.pc = "done", !.results = << FALSE >>,
                                         !.diagnostics = {"Error"}]
                       ELSE IF a.raised # "none"
                       THEN [call EXCEPT !.pc = "done", !.results = << FALSE >>,
                                         !.diagnostics = {"Error", a.raised},
                                         !.attempts = a.attempts]
                       ELSE [call EXCEPT !.pc = "connected", !.attempts = a.attempts]
    /\ UNCHANGED <<spreadsheet, reference_row, config, wip_entries, invoice_data>>

NextAuth ==
    \/ TestCredentialsFile
    \/ TestConfigFile
    \/ TestAuthentication
    \/ TestWipReading
    \/ TestSummary
    \/ ConstructEnhanced

SpecAuth == InitAuth /\ [][NextAuth]_vars

\* the document holds type = "service_account", project_id, private_key and client_email
ValidCredentials(doc) ==
    /\ doc.state = "json"
    /\ {"type", "project_id", "private_key", "client_email"} \subseteq doc.fields
    /\ doc.type = "service_account"

\* C21: a remote authentication is attempted only when the credentials document
\* holds type = "service_account", project_id, private_key and client_email;
\* with an absent, unparseable or incomplete document a script ends with a
\* diagnostic, no exception leaves it and no authentication was attempted.
C21_ValidatedBeforeAuthentication ==
    call.op \in {"test-secure-auth", "test-billed-update"} =>
        /\ call.attempts > 0 => ValidCredentials(config.credentials)
        /\ ~call.escaped
        /\ (call.pc = "done" /\ ~ValidCredentials(config.credentials)) =>
               /\ call.diagnostics # {}
               /\ call.attempts = 0

-----------------------------------------------------------------------------
(* The read path and the remote requests it sends.  get_wip_entries looks  *)
(* the worksheet up and fetches its values; generate_invoice, generate_html *)
(* and the generate-invoice entry point, whose reader returns its built-in *)
(* list, send no request.                                                   *)

\* what a request does to the spreadsheet: a batched write that the service
\* accepts is applied, a lookup or a fetch changes nothing
remote_apply(sheets, m) ==
    IF m.request = "worksheet.batch_update"
    THEN IF m.ok /\ ValuesAccepted(m.data)
         THEN [sheets EXCEPT ![m.worksheet].values = apply_value_updates(@, m.data)]
         ELSE sheets
    ELSE IF m.request = "spreadsheets.batchUpdate"
    THEN IF m.ok /\ FormatAccepted(sheets, m.requests)
         THEN apply_format_requests(sheets, m.requests)
         ELSE sheets
    ELSE sheets

RECURSIVE remote_apply_all(_, _)
remote_apply_all(sheets, log) ==
    IF log = << >> THEN sheets
    ELSE remote_apply_all(remote_apply(sheets, log[1]), Tail(log))

\* a faulty variant: the extraction marks the first data row "Billed"
get_wip_entries_requests_marking(worksheet_name) ==
    << [request |-> "spreadsheet.worksheet", worksheet |-> worksheet_name],
       [request |-> "worksheet.get_all_values", worksheet |-> worksheet_name],
       ValueWrite(worksheet_name, << [range |-> <<"G","2">>, values |-> Billed] >>, TRUE) >>

\* self.spreadsheet.worksheet(worksheet_name), worksheet.get_all_values()
get_wip_entries_requests(worksheet_name) ==
    << [request |-> "spreadsheet.worksheet", worksheet |-> worksheet_name],
       [request |-> "worksheet.get_all_values", worksheet |-> worksheet_name] >>

\* SheetsReader(url), get_wip_entries(), get_invoice_number(), generate_invoice(),
\* generate_html(), save_files(), html_to_pdf(): no request to the spreadsheet
main_requests == << >>

InitReadPath ==
    /\ \E values \in Sheets({CanonicalLayout, AliasLayout}) :
           spreadsheet = Spreadsheet(values)
    /\ reference_row = "absent"
    /\ config \in Rates
    /\ wip_entries = << >>
    /\ invoice_data = None
    /\ call = [op |-> "none", extracted |-> FALSE]

\* get_wip_entries("Sheet1"); extracted: wip_entries holds what an earlier
\* extraction returned
ReadGetWipEntries ==
    \E fetch_ok \in BOOLEAN :
        LET all_values == get_all_values("Sheet1")
            log == get_wip_entries_requests("Sheet1")
            raised == ~fetch_ok \/ scan_raises(all_values)
            ret == IF raised THEN << >> ELSE get_wip_entries(all_values)
        IN  /\ spreadsheet' = remote_apply_all(spreadsheet, log)
            /\ wip_entries' = IF raised THEN wip_entries ELSE ret
            /\ call' = [op |-> "get_wip_entries", raised |-> raised, ret |-> ret,
                        log |-> log,
                        again |-> call.extracted,
                        earlier |-> wip_entries,
                        extracted |-> call.extracted \/ ~raised]
            /\ UNCHANGED <<reference_row, config, invoice_data>>

\* one run of the generate-invoice entry point on the built-in entries
ReadMain ==
    \E completes \in BOOLEAN :
        LET entries == BuiltinWorkEntries
            data == generate_invoice(entries, first_invoice_number(entries), config)
        IN  /\ spreadsheet' = remote_apply_all(spreadsheet, main_requests)
            /\ invoice_data' = IF completes THEN data ELSE invoice_data
            /\ call' = [op |-> "main", ret |-> IF completes THEN 0 ELSE 1,
                        log |-> main_requests,
                        html_content |-> IF completes THEN generate_html(data) ELSE None,
                        extracted |-> call.extracted]
            /\ UNCHANGED <<reference_row, config, wip_entries>>

NextReadPath ==
    \/ ReadGetWipEntries
    \/ ReadMain

SpecReadPath == InitReadPath /\ [][NextReadPath]_vars

-----------------------------------------------------------------------------
(* The interactive scripts.  test-billed-update.py scans Sheet1 for the    *)
(* rows to bill, asks the operator, and on "y" or "yes" hands the entries  *)
(* it recorded to the updater.  Two invocations run against the same       *)
(* spreadsheet; a step of one may fall between two steps of the other.     *)

\* test_billed_update, lines 36-42: the paid column is looked up by 'paid' alone
billed_update_columns(headers) ==
    [column_map(headers) EXCEPT
        !.paid_col = _find_column_index(headers, << <<"p","a","i","d">> >>)]

\* lines 48-64: the row is complete, WIP, dated, and its hours parse to a
\* number > 0 and its description is not empty
is_target_row(row, cols) ==
    /\ ~incomplete_row(row, cols)
    /\ is_wip(row, cols)
    /\ cell_or(row, cols.date_col, << >>) # << >>
    /\ float(cell_or(row, cols.hours_col, <<"0">>)) # ValueError
    /\ gt_zero(float(cell_or(row, cols.hours_col, <<"0">>)))
    /\ cell_or(row, cols.task_col, << >>) # << >>

\* lines 65-73
target_entry(row, cols, row_idx) ==
    [wip_entry(row, cols, row_idx) EXCEPT !.invoice = TargetInvoice]

RECURSIVE scan_targets(_, _, _, _)
scan_targets(all_values, cols, row_idx, acc) ==
    IF row_idx > Len(all_values) THEN acc
    ELSE scan_targets(all_values, cols, row_idx + 1,
                      IF is_target_row(all_values[row_idx], cols)
                      THEN Append(acc, target_entry(all_values[row_idx], cols, row_idx))
                      ELSE acc)

\* lines 32-79
target_entries(all_values) ==
    scan_targets(all_values, billed_update_columns(all_values[1]), 2, << >>)

\* what the operator types at the prompt
Responses == { <<"y">>, <<" ","Y","e","s"," ">>, <<"n">>, <<"y","e","s","!">>, << >> }

\* response = input().strip().lower(); response in ['y', 'yes']
confirmed(response) == lower(strip(response)) \in { <<"y">>, <<"y","e","s">> }

\* a faulty variant: entries whose row is no longer "WIP" are left out
update_rereading_status(sheets, entries, worksheet_name, fail) ==
    update_wip_to_billed_with_formatting(
        sheets,
        SelectSeq(entries, LAMBDA e :
            upper(strip(StatusCell(sheets, worksheet_name, get_row_number(e)))) = <<"W","I","P">>),
        worksheet_name, fail)

\* sheets_reader.update_wip_to_billed_with_formatting(target_entries, "Sheet1")
script_update(sheets, entries, worksheet_name, fail) ==
    update_wip_to_billed_with_formatting(sheets, entries, worksheet_name, fail)

Runs == {1, 2}

\* Sheet1 in the canonical layout, some rows already "Billed"
ScriptSheets ==
    UNION {WithDefects(GoodSheet(CanonicalLayout, n),
                       Defects(CanonicalLayout, GoodSheet(CanonicalLayout, n),
                               [f \in Fields |-> UpdateAlternatives(f)], FALSE),
                       MaxDefects) : n \in 1..MaxRows}

\* a run before its scan
FreshRun == [pc |-> "start", entries |-> << >>, response |-> << >>, ret |-> "none",
             log |-> << >>]

InitScripts ==
    /\ \E values \in ScriptSheets : spreadsheet = Spreadsheet(values)
    /\ reference_row = "absent"
    /\ config = IdleConfig
    /\ wip_entries = << >>
    /\ invoice_data = None
    /\ call = [op |-> "test_billed_update", run |-> [p \in Runs |-> FreshRun], events |-> << >>]

\* lines 15-88: the configuration, the reader, the scan of Sheet1; an exception
\* ends the run with False, an empty list with True
ScriptScan ==
    \E p \in Runs, connected \in BOOLEAN :
        LET entries == target_entries(get_all_values("Sheet1"))
            run == IF ~connected THEN [FreshRun EXCEPT !.pc = "done", !.ret = "False"]
                   ELSE IF entries = << >> THEN [FreshRun EXCEPT !.pc = "done", !.ret = "True"]
                   ELSE [FreshRun EXCEPT !.pc = "confirm", !.entries = entries]
        IN  /\ call.run[p].pc = "start"
            /\ call' = [call EXCEPT !.run[p] = run,
                                    !.events = Append(@, [step |-> "scan", run |-> p])]
            /\ UNCHANGED <<spreadsheet, reference_row, config, wip_entries, invoice_data>>

\* lines 91-106: the answer is read; "y" or "yes" runs the updater on the
\* entries recorded by the scan
ScriptAnswer ==
    \E p \in Runs, response \in Responses, fail \in {"none", "batch_update", "batchUpdate"} :
        LET out == script_update(spreadsheet, call.run[p].entries, "Sheet1", fail)
        IN  /\ call.run[p].pc = "confirm"
            /\ IF confirmed(response)
               THEN /\ spreadsheet' = out.sheets
                    /\ call' = [call EXCEPT
                                   !.run[p] = [@ EXCEPT !.pc = "done", !.response = response,
                                                        !.ret = IF out.ret THEN "True" ELSE "False",
                                                        !.log = out.log],
                                   !.events = Append(@, [step |-> "update", run |-> p])]
               ELSE /\ spreadsheet' = spreadsheet
                    /\ call' = [call EXCEPT
                                   !.run[p] = [@ EXCEPT !.pc = "done", !.response = response,
                                                        !.ret = "True"],
                                   !.events = Append(@, [step |-> "decline", run |-> p])]
            /\ UNCHANGED <<reference_row, config, wip_entries, invoice_data>>

NextScripts ==
    \/ ScriptScan
    \/ ScriptAnswer

SpecScripts == InitScripts /\ [][NextScripts]_vars

\* the rows a batched value write addresses
WrittenRows(data) == {ParseA1(data[i].range).row : i \in 1..Len(data)}

\* C23: nothing keeps a second run from scanning while the first waits for its
\* answer, and the updater writes to the row numbers its run recorded, whatever
\* the rows' status has become: a confirmed run whose value write succeeds
\* addresses one cell per recorded entry, in the recorded rows, and each of these
\* rows reads "Billed" afterwards, also when another run billed it in between.
C23_WritesRecordedRows ==
    [][ \A p \in Runs :
          /\ (call.run[p].pc = "confirm") =>
                 \A q \in Runs \ {p} : call.run[q].pc = "start" => ENABLED ScriptScan
          /\ (call.run[p].pc = "confirm" /\ call'.run[p].pc = "done"
                 /\ confirmed(call'.run[p].response)) =>
                 LET log == call'.run[p].log
                     entries == call.run[p].entries
                 IN  /\ log # << >>
                     /\ IsValueWrite(log[1])
                     /\ Len(log[1].data) = Len(entries)
                     /\ WrittenRows(log[1].data) = ListedRows(entries)
                     /\ log[1].ok =>
                            \A r \in ListedRows(entries) :
                                StatusCell(spreadsheet', "Sheet1", r) = Billed
      ]_vars

\* both runs scanned before either wrote, both recorded row 2, and both wrote
\* "Billed" to it
C23_Witness ==
    /\ call.op = "test_billed_update"
    /\ Len(call.events) = 4
    /\ call.events[1].step = "scan" /\ call.events[2].step = "scan"
    /\ call.events[3].step = "update" /\ call.events[4].step = "update"
    /\ \A p \in Runs :
           /\ call.run[p].ret = "True"
           /\ 2 \in ListedRows(call.run[p].entries)
           /\ 2 \in WrittenRows(call.run[p].log[1].data)
    /\ StatusCell(spreadsheet, "Sheet1", 2) = Billed

-----------------------------------------------------------------------------
(* One run of each interactive script: test-billed-update.py,              *)
(* check-recent-entries.py and fix-nes01-5541.py.  Each scans Sheet1,      *)
(* prompts, and writes back only on "y" or "yes".                          *)

\* check_recent_entries, lines 77-94: the first three WIP rows, read by
\* position, whose hours are > 0
is_test_row(row) ==
    /\ Len(row) > 6
    /\ upper(strip(row[7])) = <<"W","I","P">>
    /\ row[2] # << >>
    /\ float(row[2]) # ValueError
    /\ gt_zero(float(row[2]))

test_entry(row, row_idx) ==
    [date |-> row[1], hours |-> float(row[2]), category |-> row[3],
     description |-> row[4], persons |-> row[5], invoice |-> TargetInvoice,
     row_number |-> row_idx]

RECURSIVE scan_tests(_, _, _)
scan_tests(all_values, row_idx, acc) ==
    IF row_idx > Len(all_values) THEN acc
    ELSE scan_tests(all_values, row_idx + 1,
                    IF Len(acc) < 3 /\ is_test_row(all_values[row_idx])
                    THEN Append(acc, test_entry(all_values[row_idx], row_idx))
                    ELSE acc)

test_entries(all_values) == scan_tests(all_values, 2, << >>)

\* fix-nes01-5541.py, lines 80-90: a complete WIP row of the invoice with hours > 0
is_nes_row(row, cols) ==
    /\ ~incomplete_row(row, cols)
    /\ cell_or(row, cols.invoice_col, << >>) = TargetInvoice
    /\ is_wip(row, cols)
    /\ float(cell_or(row, cols.hours_col, <<"0">>)) # ValueError
    /\ gt_zero(float(cell_or(row, cols.hours_col, <<"0">>)))

RECURSIVE scan_nes(_, _, _, _)
scan_nes(all_values, cols, row_idx, acc) ==
    IF row_idx > Len(all_values) THEN acc
    ELSE scan_nes(all_values, cols, row_idx + 1,
                  IF is_nes_row(all_values[row_idx], cols)
                  THEN Append(acc, target_entry(all_values[row_idx], cols, row_idx))
                  ELSE acc)

nes_5541_entries(all_values) == scan_nes(all_values, column_map(all_values[1]), 2, << >>)

\* lines 44-59: the colour of the reference row, a default when it has none
nes_reference_color(ref) == IF ref = "absent" THEN "default_orange" ELSE ref

\* update_entries_with_correct_color: the updater without the check for a
\* missing status column, with the reference colour
update_entries_with_correct_color(sheets, entries, color, fail) ==
    LET headers == row_values_1(sheets["Sheet1"].values)
        status_col_index == _find_column_index(headers, StatusAliases) + 1
        data == value_updates(entries, status_col_index)
        requests == format_requests(entries, color)
        written == [sheets EXCEPT !["Sheet1"].values = apply_value_updates(sheets["Sheet1"].values, data)]
    IN  IF fail = "row_values" THEN Outcome(sheets, FALSE, << >>)
        ELSE IF data = << >> THEN Outcome(sheets, FALSE, << >>)
        ELSE IF fail = "batch_update" \/ ~ValuesAccepted(data)
             THEN Outcome(sheets, FALSE, << ValueWrite("Sheet1", data, FALSE) >>)
        ELSE IF fail = "batchUpdate" \/ ~FormatAccepted(written, requests)
             THEN Outcome(written, FALSE,
                          << ValueWrite("Sheet1", data, TRUE), FormatWrite(requests, FALSE) >>)
        ELSE Outcome(apply_format_requests(written, requests), TRUE,
                     << ValueWrite("Sheet1", data, TRUE), FormatWrite(requests, TRUE) >>)

InteractiveScripts == {"test_billed_update", "check_recent_entries", "fix_nes01_5541"}

UpdateFailures == {"none", "batch_update", "batchUpdate"}

InitConfirm ==
    /\ \E values \in ScriptSheets : spreadsheet = Spreadsheet(values)
    /\ reference_row \in ReferenceRows
    /\ config = IdleConfig
    /\ wip_entries = << >>
    /\ invoice_data = None
    /\ \E script \in InteractiveScripts :
           call = [op |-> script, pc |-> "start", response |-> << >>, ret |-> "none",
                   log |-> << >>, invoked |-> FALSE]

\* the scan of a script ends the run (an exception: False; nothing to update:
\* True) or leaves the entries it found for the prompt
AfterScan(entries, connected) ==
    IF ~connected THEN [call EXCEPT !.pc = "done", !.ret = "False"]
    ELSE IF entries = << >> THEN [call EXCEPT !.pc = "done", !.ret = "True"]
    ELSE [call EXCEPT !.pc = "confirm"]

\* a faulty variant: any answer that begins with "y" is taken for consent
consents_by_prefix(response) ==
    lower(strip(response)) # << >> /\ lower(strip(response))[1] = "y"

\* response = input().strip().lower(); if response in ['y', 'yes']
consents(response) == confirmed(response)

\* the prompt was answered: on consent the update ran with outcome out,
\* otherwise the script reports that nothing was changed and returns True
AfterAnswer(response, out) ==
    IF consents(response)
    THEN [call EXCEPT !.pc = "done", !.response = response,
                      !.ret = IF out.ret THEN "True" ELSE "False",
                      !.log = out.log, !.invoked = TRUE]
    ELSE [call EXCEPT !.pc = "done", !.response = response, !.ret = "True"]

BilledScan ==
    /\ call.op = "test_billed_update" /\ call.pc = "start"
    /\ \E connected \in BOOLEAN :
           /\ wip_entries' = IF connected THEN target_entries(get_all_values("Sheet1")) ELSE << >>
           /\ call' = AfterScan(target_entries(get_all_values("Sheet1")), connected)
    /\ UNCHANGED <<spreadsheet, reference_row, config, invoice_data>>

BilledAnswer ==
    /\ call.op = "test_billed_update" /\ call.pc = "confirm"
    /\ \E response \in Responses, fail \in UpdateFailures :
           LET out == script_update(spreadsheet, wip_entries, "Sheet1", fail)
           IN  /\ spreadsheet' = IF consents(response) THEN out.sheets ELSE spreadsheet
               /\ call' = AfterAnswer(response, out)
    /\ UNCHANGED <<reference_row, config, wip_entries, invoice_data>>

\* check_recent_entries, lines 15-104
RecentScan ==
    /\ call.op = "check_recent_entries" /\ call.pc = "start"
    /\ \E connected \in BOOLEAN :
           /\ wip_entries' = IF connected THEN test_entries(get_all_values("Sheet1")) ELSE << >>
           /\ call' = AfterScan(test_entries(get_all_values("Sheet1")), connected)
    /\ UNCHANGED <<spreadsheet, reference_row, config, invoice_data>>

\* check_recent_entries, lines 105-121
RecentAnswer ==
    /\ call.op = "check_recent_entries" /\ call.pc = "confirm"
    /\ \E response \in Responses, fail \in UpdateFailures :
           LET out == update_wip_to_billed_with_formatting(spreadsheet, wip_entries, "Sheet1", fail)
           IN  /\ spreadsheet' = IF consents(response) THEN out.sheets ELSE spreadsheet
               /\ call' = AfterAnswer(response, out)
    /\ UNCHANGED <<reference_row, config, wip_entries, invoice_data>>

\* get_reference_color_and_find_all_entries, lines 17-113
NesScan ==
    /\ call.op = "fix_nes01_5541" /\ call.pc = "start"
    /\ \E connected \in BOOLEAN :
           /\ wip_entries' = IF connected THEN nes_5541_entries(get_all_values("Sheet1")) ELSE << >>
           /\ call' = AfterScan(nes_5541_entries(get_all_values("Sheet1")), connected)
    /\ UNCHANGED <<spreadsheet, reference_row, config, invoice_data>>

\* get_reference_color_and_find_all_entries, lines 115-140
NesAnswer ==
    /\ call.op = "fix_nes01_5541" /\ call.pc = "confirm"
    /\ \E response \in Responses, fail \in UpdateFailures :
           LET out == update_entries_with_correct_color(
                          spreadsheet, wip_entries, nes_reference_color(reference_row), fail)
           IN  /\ spreadsheet' = IF consents(response) THEN out.sheets ELSE spreadsheet
               /\ call' = AfterAnswer(response, out)
    /\ UNCHANGED <<reference_row, config, wip_entries, invoice_data>>

NextConfirm ==
    \/ BilledScan
    \/ BilledAnswer
    \/ RecentScan
    \/ RecentAnswer
    \/ NesScan
    \/ NesAnswer

SpecConfirm == InitConfirm /\ [][NextConfirm]_vars

\* the answer, trimmed and lowercased, is "y" or "yes"
IsYes(response) ==
    \/ lower(strip(response)) = <<"y">>
    \/ lower(strip(response)) = <<"y","e","s">>

\* C24: in each interactive script the update is invoked, and a cell value or
\* a background colour changes, only in the step that reads an answer which,
\* trimmed and lowercased, is "y" or "yes"; after any other answer the
\* spreadsheet is as before, no write was sent and the script returns True.
C24_WriteBackGatedByConfirmation ==
    [][ /\ (spreadsheet' # spreadsheet \/ call'.invoked \/ call'.log # << >>) =>
               (call.pc = "confirm" /\ call'.pc = "done" /\ IsYes(call'.response))
        /\ (call.pc = "confirm" /\ call'.pc = "done" /\ ~IsYes(call'.response)) =>
               /\ spreadsheet' = spreadsheet
               /\ ~call'.invoked
               /\ call'.log = << >>
               /\ call'.ret = "True"
      ]_vars

\* the operator typed "yes!" at the prompt of fix-nes01-5541.py: Sheet1 still
\* has its WIP rows and the script returned True
C24_Witness ==
    /\ call.op = "fix_nes01_5541"
    /\ call.pc = "done"
    /\ call.response = <<"y","e","s","!">>
    /\ call.ret = "True"
    /\ wip_entries # << >>
    /\ \A i \in 1..Len(wip_entries) :
           StatusCell(spreadsheet, "Sheet1", wip_entries[i].row_number) = <<"W","I","P">>

-----------------------------------------------------------------------------
(* Dates written month/day/year, read as calendar dates.                   *)

\* the positions of the "/" characters of a date
Slashes(date) == {i \in 1..Len(date) : date[i] = "/"}

\* year, month and day of a date written m/d/y
date_parts(date) ==
    LET s1 == Min(Slashes(date))
        s2 == Max(Slashes(date))
    IN  [year |-> DigitsValue(SubSeq(date, s2 + 1, Len(date))),
         month |-> DigitsValue(SubSeq(date, 1, s1 - 1)),
         day |-> DigitsValue(SubSeq(date, s1 + 1, s2 - 1))]

\* a is an earlier day than b
earlier_day(a, b) ==
    LET x == date_parts(a)
        y == date_parts(b)
    IN  \/ x.year < y.year
        \/ x.year = y.year /\ x.month < y.month
        \/ x.year = y.year /\ x.month = y.month /\ x.day < y.day

\* C25: for entries dated month/day/year without zero padding, generate_invoice
\* sets invoice_date to the chronologically latest of the entries' dates: the
\* date of an entry, and no entry has a later one; 6/10/25 for the built-in set.
C25_InvoiceDateIsLastWorkDate ==
    call.op = "generate_invoice" =>
        LET entries == invoice_data.work_entries
        IN  /\ \E i \in 1..Len(entries) : entries[i].date = invoice_data.invoice_date
            /\ \A i \in 1..Len(entries) :
                   ~earlier_day(invoice_data.invoice_date, entries[i].date)
            /\ entries = BuiltinEntries =>
                   invoice_data.invoice_date = <<"6","/","1","0","/","2","5">>

-----------------------------------------------------------------------------
(* PDFConverter.html_to_pdf command by command.  The machine has the       *)
(* conversion utility or not; `which` and `sudo` may themselves be missing, *)
(* in which case subprocess.run raises FileNotFoundError.                   *)

\* _install_wkhtmltopdf: apt-get update, then apt-get install, both with
\* check=True; CalledProcessError is caught, FileNotFoundError is not
_install_wkhtmltopdf(update, install) ==
    IF update = "not_found"
    THEN [commands |-> << "apt-get update" >>, raised |-> TRUE, installed |-> FALSE]
    ELSE IF update = "exit1"
    THEN [commands |-> << "apt-get update" >>, raised |-> FALSE, installed |-> FALSE]
    ELSE [commands |-> << "apt-get update", "apt-get install" >>, raised |-> FALSE,
          installed |-> install = "exit0"]

\* a faulty variant: a failed conversion is tried a second time
conversion_commands_retry(returncode) ==
    IF returncode = 0 THEN << "wkhtmltopdf" >> ELSE << "wkhtmltopdf", "wkhtmltopdf" >>

\* result = subprocess.run(cmd, capture_output=True, text=True)
conversion_commands(returncode) == << "wkhtmltopdf" >>

\* one call: the commands run, in order, the exit code of the conversion
\* ("none" when it did not run to an exit), the value returned, whether an
\* exception left the call, and whether the utility is installed afterwards
html_to_pdf_run(installed, which_ok, update, install, returncode) ==
    LET inst == _install_wkhtmltopdf(update, install)
        convert == conversion_commands(returncode)
        code == IF returncode = 0 THEN "0" ELSE "1"
    IN  IF ~which_ok
        THEN [commands |-> << "which" >>, exit |-> "none", ret |-> FALSE,
              raised |-> FALSE, installed |-> installed]
        ELSE IF installed
        THEN [commands |-> << "which" >> \o convert, exit |-> code, ret |-> returncode = 0,
              raised |-> FALSE, installed |-> TRUE]
        ELSE IF inst.raised
        THEN [commands |-> << "which" >> \o inst.commands, exit |-> "none", ret |-> FALSE,
              raised |-> FALSE, installed |-> FALSE]
        ELSE IF inst.installed
        THEN [commands |-> << "which" >> \o inst.commands \o convert, exit |-> code,
              ret |-> returncode = 0, raised |-> FALSE, installed |-> TRUE]
        ELSE [commands |-> << "which" >> \o inst.commands \o << "wkhtmltopdf" >>,
              exit |-> "none", ret |-> FALSE, raised |-> FALSE, installed |-> FALSE]

InitPdf ==
    /\ spreadsheet = Spreadsheet(<< >>)
    /\ reference_row = "absent"
    /\ config \in {[installed |-> b] : b \in BOOLEAN}
    /\ wip_entries = << >>
    /\ invoice_data = None
    /\ call = [op |-> "none", n |-> 0]

\* one call of html_to_pdf(html_path, pdf_path)
HtmlToPdf ==
    /\ call.n < MaxRuns
    /\ \E which_ok \in BOOLEAN, update \in {"exit0", "exit1", "not_found"},
          install \in {"exit0", "exit1"}, returncode \in {0, 1} :
           LET run == html_to_pdf_run(config.installed, which_ok, update, install, returncode)
           IN  /\ config' = [installed |-> run.installed]
               /\ call' = [op |-> "html_to_pdf", n |-> call.n + 1,
                           installed |-> config.installed, which_ok |-> which_ok,
                           update |-> update, install |-> install,
                           returncode |-> returncode,
                           commands |-> run.commands, exit |-> run.exit,
                           ret |-> run.ret, raised |-> run.raised,
                           prev |-> Forget(call)]
    /\ UNCHANGED <<spreadsheet, reference_row, wip_entries, invoice_data>>

NextPdf == HtmlToPdf

SpecPdf == InitPdf /\ [][NextPdf]_vars

Count(commands, command) == Cardinality({i \in 1..Len(commands) : commands[i] = command})

-----------------------------------------------------------------------------
(* The cells and the worksheet the updater's two mutations address.        *)

\* C27: whenever the worksheet has a paid/status column, every value write of
\* an updater run addresses, for each entry that carries a row number, the
\* cell of the resolved status column in the row of that entry, wherever the
\* status column stands.
C27_ValueWriteAddressesStatusCell ==
    [][ ( /\ call'.op = "update"
          /\ HasStatusColumn(spreadsheet, call'.worksheet_name) )
        => LET headers == row_values_1(spreadsheet[call'.worksheet_name].values)
               status_col == _find_column_index(headers, StatusAliases) + 1
               entries == numbered(call'.wip_entries)
           IN  \A k \in 1..Len(call'.log) :
                   IsValueWrite(call'.log[k]) =>
                       /\ Len(call'.log[k].data) = Len(entries)
                       /\ \A i \in 1..Len(entries) :
                              ParseA1(call'.log[k].data[i].range)
                                  = [ok |-> TRUE, row |-> get_row_number(entries[i]),
                                     col |-> status_col]
      ]_vars

\* C28: in every updater run that sends a format request, each row request
\* carries the sheetId of the worksheet the value write of the run was sent to.
C28_SameWorksheet ==
    ( /\ call.op = "update"
      /\ Len(call.log) = 2 )
    => \A i \in 1..Len(call.log[2].requests) :
           spreadsheet[call.log[1].worksheet].sheetId = call.log[2].requests[i].sheetId

\* worksheet.cell(r, c).value, empty where the grid holds nothing
CellAt(sheets, title, r, c) ==
    LET values == sheets[title].values
    IN  IF r <= Len(values) /\ c <= Len(values[r]) THEN values[r][c] ELSE << >>

\* C29: an updater run changes no value cell other than the status cell of
\* the listed rows of the worksheet it was given, and no background colour
\* other than those of columns A..G of these rows of that worksheet.
C29_Frame ==
    [][ call'.op = "update" =>
          LET name == call'.worksheet_name
              rows == ListedRows(call'.wip_entries)
              headers == row_values_1(spreadsheet[name].values)
              status_col == _find_column_index(headers, StatusAliases) + 1
          IN  \A title \in WorksheetNames :
                  /\ \A r \in 1..(GridRows + 1), c \in 1..(GridWidth(spreadsheet[title].values) + 1) :
                         CellAt(spreadsheet', title, r, c) # CellAt(spreadsheet, title, r, c)
                             => (title = name /\ r \in rows /\ c = status_col)
                  /\ DOMAIN spreadsheet'[title].bg = DOMAIN spreadsheet[title].bg
                  /\ \A r \in DOMAIN spreadsheet[title].bg :
                         /\ DOMAIN spreadsheet'[title].bg[r] = DOMAIN spreadsheet[title].bg[r]
                         /\ \A c \in DOMAIN spreadsheet[title].bg[r] :
                                spreadsheet'[title].bg[r][c] # spreadsheet[title].bg[r][c]
                                    => (title = name /\ r \in rows /\ c \in 1..7)
      ]_vars

\* C30: an updater run with an empty entry list, with no entry that carries a
\* row number, or on a worksheet whose header row has no paid/status column
\* sends no remote mutation, leaves every worksheet as it was and returns
\* False.
C30_NothingToUpdate ==
    [][ ( /\ call'.op = "update"
          /\ \/ call'.wip_entries = << >>
             \/ \A i \in 1..Len(call'.wip_entries) : get_row_number(call'.wip_entries[i]) = 0
             \/ ~HasStatusColumn(spreadsheet, call'.worksheet_name) )
        => /\ call'.log = << >>
           /\ spreadsheet' = spreadsheet
           /\ call'.ret = FALSE
      ]_vars

\* a run with only an entry of the built-in set, which has no row number, then
\* a run with the entry of row 2 on a worksheet without paid/status column:
\* neither sent anything, both returned False
C30_Witness ==
    /\ call.op = "update"
    /\ call.n = 2
    /\ call.fail = "none"
    /\ call.worksheet_name = "Sheet1"
    /\ ~HasStatusColumn(spreadsheet, "Sheet1")
    /\ call.wip_entries = << [row_number |-> 2] >>
    /\ call.log = << >>
    /\ ~call.ret
    /\ call.prev.op = "update"
    /\ call.prev.fail = "none"
    /\ call.prev.worksheet_name = "Sheet2"
    /\ call.prev.wip_entries = << BuiltinEntries[1] >>
    /\ call.prev.log = << >>
    /\ ~call.prev.ret

====
